---------------------------- MODULE Spec2Model ----------------------------
(***************************************************************************)
(* Prompt Flow Designer (App.jsx, components/PromptNode.jsx).              *)
(*                                                                         *)
(* Text is modelled as a sequence of tokens.  A token is one character of  *)
(* the classes the code inspects (a digit, ".", " ", the line break "\n")  *)
(* or a word: a non-empty run of other characters, which no regular        *)
(* expression, trim or split of the program looks into.                    *)
(***************************************************************************)
EXTENDS Integers, Sequences, FiniteSets, TLC

VARIABLES
    fn,     \* pure-function specifications: the function under check
    arg,    \* its input, drawn by Init
    ret,    \* its result: a record whose field done says it was applied
    \* the state of FlowDesigner (useNodesState, useEdgesState, useState)
    nodesState, edgesState,  \* nodes and edges (a parameter name of the functions here)
    selectedNodeId,
    isAiModalOpen, apiKey, generatorPrompt, isGenerating, generationError, generatedGraph,
    isImportModalOpen, importPromptText, importError,
    layoutMode,
    request,  \* the fetch of runAiGeneration: none, pending, or answered
    event     \* the step that ran last and the answer to its window.confirm

pureVars == <<fn, arg, ret>>

graphVars == <<nodesState, edgesState, selectedNodeId>>

aiVars == <<isAiModalOpen, apiKey, generatorPrompt, isGenerating, generationError,
            generatedGraph, request>>

importVars == <<isImportModalOpen, importPromptText, importError>>

appVars == <<graphVars, aiVars, importVars, layoutMode, event>>

vars == <<pureVars, appVars>>

\* the pure-function specifications run no application: its state stays empty
NoApp ==
    /\ nodesState = <<>> /\ edgesState = <<>> /\ selectedNodeId = ""
    /\ isAiModalOpen = FALSE /\ apiKey = <<>> /\ generatorPrompt = <<>>
    /\ isGenerating = FALSE /\ generationError = <<>> /\ generatedGraph = <<>>
    /\ isImportModalOpen = FALSE /\ importPromptText = <<>> /\ importError = <<>>
    /\ layoutMode = "" /\ request = <<>> /\ event = <<>>

NotApplied == [done |-> FALSE]

-----------------------------------------------------------------------------
(* Strings *)

NL == "\n"
DigitChars == <<"0", "1", "2", "3", "4", "5", "6", "7", "8", "9">>
IsDigit(c) == \E i \in 1..10 : DigitChars[i] = c
IsSpace(c) == c \in {" ", NL}

RECURSIVE TrimStart(_)
TrimStart(s) ==
    IF s # <<>> /\ IsSpace(Head(s)) THEN TrimStart(Tail(s)) ELSE s

RECURSIVE TrimEnd(_)
TrimEnd(s) ==
    IF s # <<>> /\ IsSpace(s[Len(s)]) THEN TrimEnd(SubSeq(s, 1, Len(s) - 1)) ELSE s

\* String.prototype.trim
Trim(s) == TrimEnd(TrimStart(s))

\* s.split("\n"): always at least one (possibly empty) piece
RECURSIVE SplitLinesFrom(_, _)
SplitLinesFrom(s, cur) ==
    IF s = <<>> THEN <<cur>>
    ELSE IF Head(s) = NL THEN <<cur>> \o SplitLinesFrom(Tail(s), <<>>)
    ELSE SplitLinesFrom(Tail(s), Append(cur, Head(s)))

SplitLines(s) == SplitLinesFrom(s, <<>>)

\* lines.join(sep)
RECURSIVE Join(_, _)
Join(lines, sep) ==
    IF lines = <<>> THEN <<>>
    ELSE IF Len(lines) = 1 THEN lines[1]
    ELSE lines[1] \o sep \o Join(Tail(lines), sep)

\* array.filter(Boolean) on strings: the empty string is falsy
RECURSIVE FilterNonEmpty(_)
FilterNonEmpty(lines) ==
    IF lines = <<>> THEN <<>>
    ELSE IF Head(lines) = <<>> THEN FilterNonEmpty(Tail(lines))
    ELSE <<Head(lines)>> \o FilterNonEmpty(Tail(lines))

MapTrim(lines) == [i \in 1..Len(lines) |-> Trim(lines[i])]

\* String(n) for a natural number
RECURSIVE IntToStr(_)
IntToStr(n) ==
    IF n < 10 THEN <<DigitChars[n + 1]>>
    ELSE IntToStr(n \div 10) \o <<DigitChars[(n % 10) + 1]>>

Min(a, b) == IF a < b THEN a ELSE b
Max(a, b) == IF a > b THEN a ELSE b

\* length of the longest prefix of s of the form \d+
RECURSIVE DigitRun(_)
DigitRun(s) ==
    IF s # <<>> /\ IsDigit(Head(s)) THEN 1 + DigitRun(Tail(s)) ELSE 0

RECURSIVE SpaceRun(_)
SpaceRun(s) ==
    IF s # <<>> /\ IsSpace(Head(s)) THEN 1 + SpaceRun(Tail(s)) ELSE 0

Drop(s, n) == SubSeq(s, n + 1, Len(s))

\* the greedy match of \d+(?:\.\d+)* at the start of s:
\* [len |-> characters matched (0: no match), segs |-> dot-separated segments]
RECURSIVE DottedTail(_)
DottedTail(s) ==
    IF Len(s) >= 2 /\ s[1] = "." /\ IsDigit(s[2])
    THEN LET d == DigitRun(Tail(s))
             r == DottedTail(Drop(s, 1 + d))
         IN  [len |-> 1 + d + r.len, segs |-> 1 + r.segs]
    ELSE [len |-> 0, segs |-> 0]

DottedNumber(s) ==
    LET d == DigitRun(s)
    IN  IF d = 0 THEN [len |-> 0, segs |-> 0]
        ELSE LET r == DottedTail(Drop(s, d))
             IN  [len |-> d + r.len, segs |-> 1 + r.segs]


SeqsUpTo(S, n) == UNION {[1..k -> S] : k \in 0..n}

-----------------------------------------------------------------------------
(* List Model.  A ListItem is [text, level]; its id is an opaque fresh     *)
(* token that no operation of the program compares, and is left out.       *)

ClampLevel(level) == Max(1, Min(3, level))

\* a list item that keeps the level it is given
createListItemUnclamped(text, level) == [text |-> text, level |-> level]

createListItem(text, level) == [text |-> text, level |-> ClampLevel(level)]

\* line.match(/^(\d+(?:\.\d+)*)(?:\.)?\s+(.+)$/) on a trimmed line:
\* [ok, segs |-> segments of group 1, text |-> group 2]
MatchNumberedLine(line) ==
    LET num      == DottedNumber(line)
        afterNum == Drop(line, num.len)
        afterDot == IF afterNum # <<>> /\ Head(afterNum) = "."
                    THEN Tail(afterNum) ELSE afterNum
        sp       == SpaceRun(afterDot)
        rest     == Drop(afterDot, sp)
    IN  [ok   |-> num.len > 0 /\ sp > 0 /\ rest # <<>>,
         segs |-> num.segs,
         text |-> rest]

ParseListLine(line) ==
    LET m == MatchNumberedLine(line)
    IN  IF m.ok THEN createListItem(m.text, m.segs) ELSE createListItem(line, 1)

normalizeListItems(items, fallbackContent) ==
    IF items # <<>>
    THEN [i \in 1..Len(items) |->
            [text |-> items[i].text, level |-> ClampLevel(items[i].level)]]
    ELSE LET lines == FilterNonEmpty(MapTrim(SplitLines(fallbackContent)))
         IN  IF lines # <<>>
             THEN [i \in 1..Len(lines) |-> ParseListLine(lines[i])]
             ELSE <<createListItem(<<>>, 1)>>

\* the token of an item: counters.slice(0, level).join(".")
ListToken(counters, level) ==
    Join([i \in 1..level |-> IntToStr(counters[i])], <<".">>)

\* the counters after an item of this level
BumpCounters(counters, level) ==
    [i \in 1..3 |-> IF i = level THEN counters[i] + 1
                    ELSE IF i > level THEN 0 ELSE counters[i]]

RECURSIVE FormatItems(_, _)
FormatItems(items, counters) ==
    IF items = <<>> THEN <<>>
    ELSE LET level == ClampLevel(Head(items).level)
             next  == BumpCounters(counters, level)
             text  == Trim(Head(items).text)
             line  == IF text = <<>> THEN <<>>
                      ELSE ListToken(next, level) \o <<" ">> \o text
         IN  <<line>> \o FormatItems(Tail(items), next)

formatNumberedList(items) ==
    Join(FilterNonEmpty(FormatItems(normalizeListItems(items, <<>>), <<0, 0, 0>>)),
         <<NL>>)

-----------------------------------------------------------------------------
(* SpecList: the List Model as pure functions over bounded item lists.     *)

MaxTextLen == 2
MaxListLen == 2
TextAlphabet == {"a", " ", "1", "."}
ItemTexts == SeqsUpTo(TextAlphabet, MaxTextLen)
ListItems == [text : ItemTexts, level : 1..3]
ItemLists == SeqsUpTo(ListItems, MaxListLen)

ListInit ==
    /\ NoApp
    /\ fn = "roundTrip"
    /\ arg \in ItemLists
    /\ ret = NotApplied

\* formatNumberedList, normalizeListItems([], text), formatNumberedList
RoundTrip ==
    /\ fn = "roundTrip"
    /\ ~ret.done
    /\ LET first == formatNumberedList(arg)
           items == normalizeListItems(<<>>, first)
       IN  ret' = [done |-> TRUE, first |-> first, items |-> items,
                   second |-> formatNumberedList(items)]
    /\ UNCHANGED <<fn, arg, appVars>>

ListNext == RoundTrip

SpecList == ListInit /\ [][ListNext]_vars

\* C8: rendering, re-deriving the items from the text and rendering again
\* gives the first rendering, for every item list with levels in 1..3 and
\* texts without line breaks, blank texts included.
C8_RoundTripIdempotent ==
    (fn = "roundTrip" /\ ret.done) => ret.second = ret.first


-----------------------------------------------------------------------------
(* Graphs.                                                                 *)
(* A canonical graph is [nodes, edges]: nodes [id, role, label, content],  *)
(* edges [from, to].  A working (canvas) node is [id, type, position,      *)
(* data], data = [role, label, listItems, content]; a working edge is      *)
(* [id, source, target] (its constant type and markerEnd are left out).    *)
(* A JavaScript Map is a function whose DOMAIN is the set of its keys.     *)

EmptyMap == [k \in {} |-> 0]
MapPut(m, k, v) == [x \in (DOMAIN m) \cup {k} |-> IF x = k THEN v ELSE m[x]]
\* m.get(k) ?? d
MapGet(m, k, d) == IF k \in DOMAIN m THEN m[k] ELSE d

RECURSIVE MapFromPairs(_, _)
\* new Map(pairs): a later pair with the same key wins
MapFromPairs(pairs, m) ==
    IF pairs = <<>> THEN m
    ELSE MapFromPairs(Tail(pairs), MapPut(m, Head(pairs)[1], Head(pairs)[2]))

NodeIds(nodes) == {nodes[i].id : i \in 1..Len(nodes)}

\* new Map(nodes.map((n) => [n.id, n]))
NodesById(nodes) ==
    MapFromPairs([i \in 1..Len(nodes) |-> <<nodes[i].id, nodes[i]>>], EmptyMap)

\* array.filter(Test)
SelectSeq2(seq, Test(_)) == SelectSeq(seq, Test)

\* Array.prototype.sort with a comparator that orders by a key: stable.
\* Before(a, b) is cmp(a, b) < 0; an element comes after those that sort
\* before it and after the earlier elements it ties with.
StableSort(seq, Before(_, _)) ==
    LET n == Len(seq)
        Rank(i) == 1 + Cardinality({j \in 1..n :
                          \/ Before(seq[j], seq[i])
                          \/ (j < i /\ ~Before(seq[i], seq[j]))})
    IN  [r \in 1..n |-> seq[CHOOSE i \in 1..n : Rank(i) = r]]

\* a.position.y - b.position.y || a.position.x - b.position.x, negative
PositionBefore(p, q) == p.y < q.y \/ (p.y = q.y /\ p.x < q.x)

\* graph: the canonical export of buildPromptOutput
ExportGraph(nodes, edges) ==
    [nodes |-> [i \in 1..Len(nodes) |->
                  [id |-> nodes[i].id, role |-> nodes[i].data.role,
                   label |-> nodes[i].data.label, content |-> nodes[i].data.content]],
     edges |-> [i \in 1..Len(edges) |-> [from |-> edges[i].source, to |-> edges[i].target]]]

-----------------------------------------------------------------------------
(* Layout Engine: layoutGraph                                              *)

\* graph.edges.forEach: indegree and outgoing of layoutGraph
RECURSIVE LayoutGraphDegrees(_, _)
LayoutGraphDegrees(edges, st) ==
    IF edges = <<>> THEN st
    ELSE LET edge == Head(edges)
         IN  LayoutGraphDegrees(Tail(edges),
                [indegree |-> MapPut(st.indegree, edge.to,
                                     MapGet(st.indegree, edge.to, 0) + 1),
                 outgoing |-> MapPut(st.outgoing, edge.from,
                                     Append(st.outgoing[edge.from], edge.to))])

\* a relaxation that keeps the level a target got first and never raises it
RECURSIVE LayoutGraphRelaxFirstSeen(_, _, _)
LayoutGraphRelaxFirstSeen(targets, current, st) ==
    IF targets = <<>> THEN st
    ELSE LET target    == Head(targets)
             nextLevel == MapGet(st.level, current, 0) + 1
             level1    == IF target \notin DOMAIN st.level
                          THEN MapPut(st.level, target, nextLevel) ELSE st.level
             indeg1    == MapPut(st.indegree, target, MapGet(st.indegree, target, 0) - 1)
             queue1    == IF indeg1[target] = 0 THEN Append(st.queue, target) ELSE st.queue
         IN  LayoutGraphRelaxFirstSeen(Tail(targets), current,
                              [level |-> level1, indegree |-> indeg1, queue |-> queue1])

\* for (const target of outgoing.get(current) ?? [])
RECURSIVE LayoutGraphRelax(_, _, _)
LayoutGraphRelax(targets, current, st) ==
    IF targets = <<>> THEN st
    ELSE LET target    == Head(targets)
             nextLevel == MapGet(st.level, current, 0) + 1
             level1    == IF target \notin DOMAIN st.level \/ nextLevel > st.level[target]
                          THEN MapPut(st.level, target, nextLevel) ELSE st.level
             indeg1    == MapPut(st.indegree, target, MapGet(st.indegree, target, 0) - 1)
             queue1    == IF indeg1[target] = 0 THEN Append(st.queue, target) ELSE st.queue
         IN  LayoutGraphRelax(Tail(targets), current,
                              [level |-> level1, indegree |-> indeg1, queue |-> queue1])

\* while (queue.length)
RECURSIVE LayoutGraphLoop(_, _)
LayoutGraphLoop(st, outgoing) ==
    IF st.queue = <<>> THEN st
    ELSE LET current == Head(st.queue)
         IN  LayoutGraphLoop(
                LayoutGraphRelax(MapGet(outgoing, current, <<>>), current,
                                 [st EXCEPT !.queue = Tail(@)]),
                outgoing)

\* the level Map of layoutGraph (graph edges reference graph nodes: every
\* caller validates the graph first)
LayoutGraphLevels(graph) ==
    LET ids    == [i \in 1..Len(graph.nodes) |-> graph.nodes[i].id]
        deg    == LayoutGraphDegrees(graph.edges,
                     [indegree |-> [id \in NodeIds(graph.nodes) |-> 0],
                      outgoing |-> [id \in NodeIds(graph.nodes) |-> <<>>]])
        IsSeed(id) == MapGet(deg.indegree, id, 0) = 0
        queue  == SelectSeq2(ids, IsSeed)
        level0 == [id \in {queue[i] : i \in 1..Len(queue)} |-> 0]
    IN  LayoutGraphLoop([queue |-> queue, level |-> level0, indegree |-> deg.indegree],
                        deg.outgoing).level

\* level.get(node.id) ?? 0
LayoutGraphLevelOf(level, id) == MapGet(level, id, 0)

\* the ids of a level in node input order: grouped.get(l)
LayoutGraphLane(graph, level, l) ==
    LET ids == [i \in 1..Len(graph.nodes) |-> graph.nodes[i].id]
        InLevel(id) == LayoutGraphLevelOf(level, id) = l
    IN  SelectSeq2(ids, InLevel)

RECURSIVE LayoutGraphRows(_, _, _, _)
\* [...grouped.keys()].sort((a, b) => a - b).forEach: levels in increasing order
LayoutGraphRows(graph, level, levels, byId) ==
    IF levels = {} THEN <<>>
    ELSE LET l   == CHOOSE x \in levels : \A y \in levels : x <= y
             ids == LayoutGraphLane(graph, level, l)
         IN  [lane \in 1..Len(ids) |->
                LET node == byId[ids[lane]]
                IN  [id       |-> node.id,
                     type     |-> "promptNode",
                     position |-> [x |-> 120 + (lane - 1) * 320, y |-> 100 + l * 220],
                     data     |-> [role      |-> node.role,
                                   label     |-> node.label,
                                   content   |-> node.content,
                                   listItems |-> normalizeListItems(<<>>, node.content)]]]
             \o LayoutGraphRows(graph, level, levels \ {l}, byId)

\* a layout that stores the content rendered from the list items
layoutGraphContentFromItems(graph) ==
    LET level == LayoutGraphLevels(graph)
        used  == {LayoutGraphLevelOf(level, graph.nodes[i].id) : i \in 1..Len(graph.nodes)}
        rows  == LayoutGraphRows(graph, level, used, NodesById(graph.nodes))
    IN  [rfNodes |-> [i \in 1..Len(rows) |->
                        [rows[i] EXCEPT !.data.content =
                            formatNumberedList(rows[i].data.listItems)]],
         rfEdges |-> [i \in 1..Len(graph.edges) |->
                        [id     |-> <<graph.edges[i].from, graph.edges[i].to, i - 1>>,
                         source |-> graph.edges[i].from,
                         target |-> graph.edges[i].to]]]

layoutGraph(graph) ==
    LET level == LayoutGraphLevels(graph)
        used  == {LayoutGraphLevelOf(level, graph.nodes[i].id) : i \in 1..Len(graph.nodes)}
    IN  [rfNodes |-> LayoutGraphRows(graph, level, used, NodesById(graph.nodes)),
         rfEdges |-> [i \in 1..Len(graph.edges) |->
                        [id     |-> <<graph.edges[i].from, graph.edges[i].to, i - 1>>,
                         source |-> graph.edges[i].from,
                         target |-> graph.edges[i].to]]]

-----------------------------------------------------------------------------
(* Layout Engine: autoLayoutNodes                                          *)

startX == 100
startY == 100
gapX == 320
gapY == 220

\* currentEdges.forEach: edges with a missing end are skipped
RECURSIVE AutoLayoutDegrees(_, _, _)
AutoLayoutDegrees(edges, ids, st) ==
    IF edges = <<>> THEN st
    ELSE LET edge == Head(edges)
         IN  IF edge.source \notin ids \/ edge.target \notin ids
             THEN AutoLayoutDegrees(Tail(edges), ids, st)
             ELSE AutoLayoutDegrees(Tail(edges), ids,
                    [outgoing |-> MapPut(st.outgoing, edge.source,
                                         Append(st.outgoing[edge.source], edge.target)),
                     indegree |-> MapPut(st.indegree, edge.target,
                                         MapGet(st.indegree, edge.target, 0) + 1)])

\* sortByCanvas(a, b) < 0, on ids
SortByCanvasBefore(byId, a, b) == PositionBefore(byId[a].position, byId[b].position)

\* a relaxation that keeps the level a target got first and never raises it
RECURSIVE AutoLayoutRelaxFirstSeen(_, _, _)
AutoLayoutRelaxFirstSeen(targets, currentLevel, st) ==
    IF targets = <<>> THEN st
    ELSE LET target == Head(targets)
             level1 == IF target \notin DOMAIN st.level
                       THEN MapPut(st.level, target, currentLevel + 1) ELSE st.level
             indeg1 == MapPut(st.indegree, target, MapGet(st.indegree, target, 0) - 1)
             queue1 == IF indeg1[target] = 0 THEN Append(st.queue, target) ELSE st.queue
         IN  AutoLayoutRelaxFirstSeen(Tail(targets), currentLevel,
                [st EXCEPT !.level = level1, !.indegree = indeg1, !.queue = queue1])

\* for (const target of outgoing.get(current) ?? [])
RECURSIVE AutoLayoutRelax(_, _, _)
AutoLayoutRelax(targets, currentLevel, st) ==
    IF targets = <<>> THEN st
    ELSE LET target    == Head(targets)
             nextLevel == currentLevel + 1
             level1    == IF target \notin DOMAIN st.level
                             \/ nextLevel > MapGet(st.level, target, 0)
                          THEN MapPut(st.level, target, nextLevel) ELSE st.level
             indeg1    == MapPut(st.indegree, target, MapGet(st.indegree, target, 0) - 1)
             queue1    == IF indeg1[target] = 0 THEN Append(st.queue, target) ELSE st.queue
         IN  AutoLayoutRelax(Tail(targets), currentLevel,
                [st EXCEPT !.level = level1, !.indegree = indeg1, !.queue = queue1])

\* while (queue.length)
RECURSIVE AutoLayoutLoop(_, _)
AutoLayoutLoop(st, outgoing) ==
    IF st.queue = <<>> THEN st
    ELSE LET current      == Head(st.queue)
             currentLevel == MapGet(st.level, current, 0)
         IN  AutoLayoutLoop(
                AutoLayoutRelax(MapGet(outgoing, current, <<>>), currentLevel,
                    [st EXCEPT !.queue = Tail(@),
                               !.maxLevel = Max(@, currentLevel)]),
                outgoing)

\* the leveling step of autoLayoutNodes:
\* [queueLevel |-> the level Map after the queue pass, maxLevel,
\*  level |-> the level Map after the unresolved nodes got theirs]
AutoLayoutLevels(currentNodes, currentEdges) ==
    LET ids   == [i \in 1..Len(currentNodes) |-> currentNodes[i].id]
        idSet == NodeIds(currentNodes)
        byId  == NodesById(currentNodes)
        deg   == AutoLayoutDegrees(currentEdges, idSet,
                    [outgoing |-> [id \in idSet |-> <<>>],
                     indegree |-> [id \in idSet |-> 0]])
        Canvas(a, b) == SortByCanvasBefore(byId, a, b)
        IsSeed(id)   == MapGet(deg.indegree, id, 0) = 0
        queue  == StableSort(SelectSeq2(ids, IsSeed), Canvas)
        level0 == [id \in {queue[i] : i \in 1..Len(queue)} |-> 0]
        pass   == AutoLayoutLoop([queue |-> queue, level |-> level0,
                                  indegree |-> deg.indegree, maxLevel |-> 0],
                                 deg.outgoing)
        NoLevel(id) == id \notin DOMAIN pass.level
        unresolved  == StableSort(SelectSeq2(ids, NoLevel), Canvas)
    IN  [queueLevel |-> pass.level,
         maxLevel   |-> pass.maxLevel,
         level      |-> MapFromPairs(
                            [i \in 1..Len(unresolved) |->
                                <<unresolved[i], pass.maxLevel + 1 + (i - 1)>>],
                            pass.level)]

\* Math.max(1, Math.ceil(Math.sqrt(n)))
GridColumns(n) ==
    Max(1, CHOOSE c \in 0..n : c * c >= n /\ (c = 0 \/ (c - 1) * (c - 1) < n))

\* mode === "grid": positionById
AutoLayoutGridPositions(currentNodes, level) ==
    LET GridBefore(a, b) ==
            \/ MapGet(level, a.id, 0) < MapGet(level, b.id, 0)
            \/ /\ MapGet(level, a.id, 0) = MapGet(level, b.id, 0)
               /\ PositionBefore(a.position, b.position)
        sorted  == StableSort(currentNodes, GridBefore)
        columns == GridColumns(Len(sorted))
    IN  MapFromPairs(
            [i \in 1..Len(sorted) |->
                <<sorted[i].id,
                  [x |-> startX + ((i - 1) % columns) * gapX,
                   y |-> startY + ((i - 1) \div columns) * gapY]>>],
            EmptyMap)

\* grouped.get(l), sorted by canvas position
AutoLayoutLane(currentNodes, level, l) ==
    LET ids  == [i \in 1..Len(currentNodes) |-> currentNodes[i].id]
        byId == NodesById(currentNodes)
        InLevel(id)  == MapGet(level, id, 0) = l
        Canvas(a, b) == SortByCanvasBefore(byId, a, b)
    IN  StableSort(SelectSeq2(ids, InLevel), Canvas)

RECURSIVE AutoLayoutTierPositions(_, _, _, _, _)
\* mode "vertical" / "horizontal": positionById, levels in increasing order
AutoLayoutTierPositions(currentNodes, level, levels, mode, positionById) ==
    IF levels = {} THEN positionById
    ELSE LET l   == CHOOSE x \in levels : \A y \in levels : x <= y
             ids == AutoLayoutLane(currentNodes, level, l)
         IN  AutoLayoutTierPositions(currentNodes, level, levels \ {l}, mode,
                MapFromPairs(
                    [lane \in 1..Len(ids) |->
                        <<ids[lane],
                          IF mode = "horizontal"
                          THEN [x |-> startX + l * gapX, y |-> startY + (lane - 1) * gapY]
                          ELSE [x |-> startX + (lane - 1) * gapX, y |-> startY + l * gapY]>>],
                    positionById))

\* autoLayoutNodes that returns the nodes tier by tier, not in array order
autoLayoutNodesByTier(currentNodes, currentEdges, mode) ==
    IF currentNodes = <<>> THEN currentNodes
    ELSE LET level == AutoLayoutLevels(currentNodes, currentEdges).level
             used  == {MapGet(level, currentNodes[i].id, 0) : i \in 1..Len(currentNodes)}
             positionById ==
                 IF mode = "grid" THEN AutoLayoutGridPositions(currentNodes, level)
                 ELSE AutoLayoutTierPositions(currentNodes, level, used, mode, EmptyMap)
             ByTier(a, b) == MapGet(level, a.id, 0) < MapGet(level, b.id, 0)
         IN  StableSort([i \in 1..Len(currentNodes) |->
                            [currentNodes[i] EXCEPT
                                !.position = MapGet(positionById, currentNodes[i].id, @)]],
                        ByTier)

autoLayoutNodes(currentNodes, currentEdges, mode) ==
    IF currentNodes = <<>> THEN currentNodes
    ELSE LET level == AutoLayoutLevels(currentNodes, currentEdges).level
             used  == {MapGet(level, currentNodes[i].id, 0) : i \in 1..Len(currentNodes)}
             positionById ==
                 IF mode = "grid" THEN AutoLayoutGridPositions(currentNodes, level)
                 ELSE AutoLayoutTierPositions(currentNodes, level, used, mode, EmptyMap)
         IN  [i \in 1..Len(currentNodes) |->
                [currentNodes[i] EXCEPT
                    !.position = MapGet(positionById, currentNodes[i].id, @)]]

-----------------------------------------------------------------------------
(* SpecLayout: the leveling step of layoutGraph and of autoLayoutNodes on  *)
(* bounded graphs: up to MaxLayoutNodes nodes anywhere on a small canvas   *)
(* grid, up to MaxLayoutEdges edges between them (self-loops and cycles    *)
(* included) listed in either order, optionally one edge to a missing id.  *)

MaxLayoutNodes == 3
MaxLayoutEdges == 3

LayoutIds == <<"a", "b", "c", "d", "e", "f">>
CanvasPoints == <<[x |-> 100, y |-> 100], [x |-> 420, y |-> 100],
                  [x |-> 100, y |-> 320], [x |-> 420, y |-> 320]>>

SampleData == [role |-> "user", label |-> <<"User">>,
               listItems |-> <<[text |-> <<"x">>, level |-> 1]>>,
               content |-> <<"1", " ", "x">>]

\* the n nodes a, b, ... with node i at canvas point place[i]
CanvasNodes(n, place) ==
    [i \in 1..n |-> [id |-> LayoutIds[i], type |-> "promptNode",
                     position |-> CanvasPoints[place[i]], data |-> SampleData]]

\* the n * n ordered pairs of the first n ids, numbered 1..n*n
PairEdge(n, k) ==
    [id |-> k, source |-> LayoutIds[((k - 1) \div n) + 1],
               target |-> LayoutIds[((k - 1) % n) + 1]]

RECURSIVE PickedEdges(_, _, _)
\* the edges numbered in picks, in increasing order of their numbers
PickedEdges(n, picks, k) ==
    IF k > n * n THEN <<>>
    ELSE (IF k \in picks THEN <<PairEdge(n, k)>> ELSE <<>>) \o PickedEdges(n, picks, k + 1)

Reverse(seq) == [i \in 1..Len(seq) |-> seq[Len(seq) + 1 - i]]

Placements(n) ==
    {f \in [1..n -> 1..Len(CanvasPoints)] : \A i, j \in 1..n : i # j => f[i] # f[j]}

\* the subsets of S with at most k elements
RECURSIVE SubsetsUpTo(_, _)
SubsetsUpTo(S, k) ==
    IF k = 0 THEN {{}}
    ELSE LET smaller == SubsetsUpTo(S, k - 1)
         IN  smaller \cup {ps \cup {x} : ps \in smaller, x \in S}

EdgePicks(n, max) == SubsetsUpTo(1..(n * n), max)

DanglingEdge == [id |-> 0, source |-> "a", target |-> "zz"]

LayoutInput(n, place, picks, rev, dangling) ==
    [nodes |-> CanvasNodes(n, place),
     edges |-> (IF dangling THEN <<DanglingEdge>> ELSE <<>>)
               \o (IF rev THEN Reverse(PickedEdges(n, picks, 1))
                   ELSE PickedEdges(n, picks, 1))]

\* the edges both of whose ends are nodes
InnerEdges(nodes, edges) ==
    LET ids == NodeIds(nodes)
        Inner(e) == e.source \in ids /\ e.target \in ids
    IN  SelectSeq2(edges, Inner)

LayoutInit ==
    /\ NoApp
    /\ fn = "level"
    /\ \E n \in 1..Min(MaxLayoutNodes, Len(CanvasPoints)) :
       \E place \in Placements(n), picks \in EdgePicks(n, MaxLayoutEdges),
          rev \in BOOLEAN, dangling \in BOOLEAN :
            arg = LayoutInput(n, place, picks, rev, dangling)
    /\ ret = NotApplied

\* the leveling step of both algorithms on the same graph; layoutGraph gets
\* the edges between existing nodes, as a validated graph has no others
Level ==
    /\ fn = "level"
    /\ ~ret.done
    /\ ret' = [done  |-> TRUE,
               auto  |-> AutoLayoutLevels(arg.nodes, arg.edges).level,
               graph |-> LayoutGraphLevels(
                            ExportGraph(arg.nodes, InnerEdges(arg.nodes, arg.edges)))]
    /\ UNCHANGED <<fn, arg, appVars>>

LayoutNext == Level

SpecLayout == LayoutInit /\ [][LayoutNext]_vars

\* the edge relation has no cycle: no node reaches itself
RECURSIVE ReachWithin(_, _, _)
ReachWithin(rel, from, steps) ==
    IF steps = 0 THEN from
    ELSE ReachWithin(rel, from \cup {p[2] : p \in {q \in rel : q[1] \in from}}, steps - 1)

Acyclic(nodes, edges) ==
    LET inner == InnerEdges(nodes, edges)
        rel   == {<<inner[i].source, inner[i].target>> : i \in 1..Len(inner)}
    IN  \A id \in NodeIds(nodes) :
            id \notin ReachWithin(rel, {p[2] : p \in {q \in rel : q[1] = id}}, Len(nodes))

\* level(target) >= level(source) + 1 on every edge between existing nodes
EdgesLevelled(nodes, edges, level, default) ==
    \A i \in 1..Len(edges) :
        (edges[i].source \in NodeIds(nodes) /\ edges[i].target \in NodeIds(nodes))
            => MapGet(level, edges[i].target, default)
                   >= MapGet(level, edges[i].source, default) + 1

\* C9 (as stated): after the leveling step of layoutGraph and of
\* autoLayoutNodes, level(target) >= level(source) + 1 on every edge between
\* existing nodes, whatever the graph.
C9_EdgesLevelledAnyGraph ==
    (fn = "level" /\ ret.done) =>
        /\ EdgesLevelled(arg.nodes, arg.edges, ret.auto, 0)
        /\ EdgesLevelled(arg.nodes, arg.edges, ret.graph, 0)

\* C9 (amended): the same, for graphs whose edges between existing nodes
\* form no cycle.
C9_EdgesLevelledAcyclic ==
    (fn = "level" /\ ret.done /\ Acyclic(arg.nodes, arg.edges)) =>
        /\ EdgesLevelled(arg.nodes, arg.edges, ret.auto, 0)
        /\ EdgesLevelled(arg.nodes, arg.edges, ret.graph, 0)

\* C9 witness: an acyclic graph with a node two levels below a source, with
\* an edge that skips a level, has been levelled by both algorithms.
C9_Witness ==
    /\ fn = "level" /\ ret.done /\ Acyclic(arg.nodes, arg.edges)
    /\ Len(InnerEdges(arg.nodes, arg.edges)) = 3
    /\ \E id \in NodeIds(arg.nodes) : ret.auto[id] = 2 /\ ret.graph[id] = 2

\* the length of the longest path to id over the edges between existing
\* nodes: 0 for a node without incoming edge (the edges form no cycle)
RECURSIVE LongestPathTo(_, _)
LongestPathTo(rel, id) ==
    LET sources == {p[1] : p \in {q \in rel : q[2] = id}}
        lengths == {LongestPathTo(rel, source) + 1 : source \in sources}
    IN  IF sources = {} THEN 0
        ELSE CHOOSE l \in lengths : \A m \in lengths : m <= l

InnerRelation(nodes, edges) ==
    {<<InnerEdges(nodes, edges)[i].source, InnerEdges(nodes, edges)[i].target>> :
        i \in 1..Len(InnerEdges(nodes, edges))}

\* C21: on an acyclic graph both leveling steps give every node the length
\* of the longest path to it from a zero-in-degree node (0 for the sources),
\* in whatever order the nodes and the edges are listed.
C21_LevelIsLongestPath ==
    (fn = "level" /\ ret.done /\ Acyclic(arg.nodes, arg.edges)) =>
        \A id \in NodeIds(arg.nodes) :
            /\ MapGet(ret.auto, id, -1)
                    = LongestPathTo(InnerRelation(arg.nodes, arg.edges), id)
            /\ MapGet(ret.graph, id, -1)
                    = LongestPathTo(InnerRelation(arg.nodes, arg.edges), id)

\* C21 witness: a graph whose node a is two edges below the source c, with
\* the skipping edge c -> a listed before the edge b -> a, was levelled.
C21_Witness ==
    /\ fn = "level" /\ ret.done /\ Acyclic(arg.nodes, arg.edges)
    /\ Len(arg.nodes) = 3 /\ Len(arg.edges) = 3
    /\ arg.edges[2].source = "c" /\ arg.edges[2].target = "a"
    /\ arg.edges[3].source = "b" /\ arg.edges[3].target = "a"
    /\ ret.auto["a"] = 2 /\ ret.graph["a"] = 2
    /\ ret.auto["c"] = 0 /\ ret.graph["c"] = 0

-----------------------------------------------------------------------------
(* SpecUnresolved: the leveling step of autoLayoutNodes on graphs with     *)
(* cycles: up to MaxCycleNodes nodes anywhere on a small canvas grid and   *)
(* up to MaxCycleEdges edges between them, self-loops included.            *)

MaxCycleNodes == 3
MaxCycleEdges == 3

CycleInit ==
    /\ NoApp
    /\ fn = "unresolved"
    /\ \E n \in 1..Min(MaxCycleNodes, Len(CanvasPoints)) :
       \E place \in Placements(n), picks \in EdgePicks(n, MaxCycleEdges) :
            arg = LayoutInput(n, place, picks, FALSE, FALSE)
    /\ ret = NotApplied

\* the level Map when the queue is empty, and after unresolved.forEach
LevelUnresolved ==
    /\ fn = "unresolved"
    /\ ~ret.done
    /\ ret' = [done       |-> TRUE,
               queueLevel |-> AutoLayoutLevels(arg.nodes, arg.edges).queueLevel,
               level      |-> AutoLayoutLevels(arg.nodes, arg.edges).level]
    /\ UNCHANGED <<fn, arg, appVars>>

CycleNext == LevelUnresolved

SpecUnresolved == CycleInit /\ [][CycleNext]_vars

\* the nodes that have no level when the queue is empty
UnresolvedIds(nodes, queueLevel) == NodeIds(nodes) \ DOMAIN queueLevel

\* unresolved nodes get distinct levels that increase in canvas order
UnresolvedInCanvasOrder(nodes, queueLevel, level) ==
    \A u, v \in UnresolvedIds(nodes, queueLevel) :
        PositionBefore(NodesById(nodes)[u].position, NodesById(nodes)[v].position)
            => level[u] < level[v]

\* C22: every node without a level from the queue pass gets a level above
\* the level of every node that has one from the queue pass, and these nodes
\* get distinct levels increasing in canvas order (y, then x).
C22_UnresolvedAboveResolved ==
    (fn = "unresolved" /\ ret.done) =>
        /\ \A u \in UnresolvedIds(arg.nodes, ret.queueLevel) :
           \A r \in DOMAIN ret.queueLevel : ret.level[u] > ret.level[r]
        /\ UnresolvedInCanvasOrder(arg.nodes, ret.queueLevel, ret.level)

-----------------------------------------------------------------------------
(* SpecRelayout: autoLayoutNodes applied twice, as two clicks on Apply     *)
(* Layout with the edges and the mode unchanged, on graphs of up to        *)
(* MaxRelayoutNodes nodes and MaxRelayoutEdges edges between distinct      *)
(* nodes (cycles included).                                                *)

MaxRelayoutNodes == 4
MaxRelayoutEdges == 4
LayoutModes == {"vertical", "horizontal", "grid"}

NoSelfLoopPicks(n, max) ==
    SubsetsUpTo({k \in 1..(n * n) : (k - 1) \div n # (k - 1) % n}, max)

RelayoutInit ==
    /\ NoApp
    /\ fn = "relayout"
    /\ \E n \in 1..Min(MaxRelayoutNodes, Len(CanvasPoints)) :
       \E place \in Placements(n), picks \in NoSelfLoopPicks(n, MaxRelayoutEdges) :
            arg = LayoutInput(n, place, picks, FALSE, FALSE)
    /\ ret = NotApplied

Relayout(mode) ==
    /\ fn = "relayout"
    /\ ~ret.done
    /\ LET first == autoLayoutNodes(arg.nodes, arg.edges, mode)
       IN  ret' = [done   |-> TRUE,
                   mode   |-> mode,
                   level1 |-> AutoLayoutLevels(arg.nodes, arg.edges).level,
                   first  |-> first,
                   level2 |-> AutoLayoutLevels(first, arg.edges).level,
                   second |-> autoLayoutNodes(first, arg.edges, mode)]
    /\ UNCHANGED <<fn, arg, appVars>>

RelayoutNext == \E mode \in LayoutModes : Relayout(mode)

SpecRelayout == RelayoutInit /\ [][RelayoutNext]_vars

\* C10: a second autoLayoutNodes with the same edges and mode computes the
\* same level for every node and leaves every position as the first set it.
C10_RelayoutRepeatable ==
    (fn = "relayout" /\ ret.done) =>
        /\ ret.level2 = ret.level1
        /\ ret.second = ret.first

-----------------------------------------------------------------------------
(* Sequencer: buildPromptOutput                                            *)

\* edges.forEach: outgoing has a key per edge source, indegree counts every
\* edge target, nodes or not
RECURSIVE SequencerDegrees(_, _)
SequencerDegrees(edges, st) ==
    IF edges = <<>> THEN st
    ELSE LET e == Head(edges)
         IN  SequencerDegrees(Tail(edges),
                [outgoing |-> MapPut(st.outgoing, e.source,
                                     Append(MapGet(st.outgoing, e.source, <<>>), e.target)),
                 indegree |-> MapPut(st.indegree, e.target,
                                     MapGet(st.indegree, e.target, 0) + 1)])

\* the comparator of the targets sort, negative: 0 when either id is no node
TargetBefore(nodeMap, a, b) ==
    /\ a \in DOMAIN nodeMap
    /\ b \in DOMAIN nodeMap
    /\ PositionBefore(nodeMap[a].position, nodeMap[b].position)

\* [...targets].sort(comparator), as a stable insertion sort (with a target
\* that is no node the comparator is no order, and the engine's result is
\* one of the permutations; every id is kept)
RECURSIVE InsertTarget(_, _, _)
InsertTarget(sorted, x, nodeMap) ==
    IF sorted = <<>> THEN <<x>>
    ELSE IF TargetBefore(nodeMap, x, sorted[Len(sorted)])
         THEN Append(InsertTarget(SubSeq(sorted, 1, Len(sorted) - 1), x, nodeMap),
                     sorted[Len(sorted)])
         ELSE Append(sorted, x)

\* the targets in edge insertion order, without the sort
SortTargetsInsertionOrder(targets, sorted, nodeMap) == sorted \o targets

RECURSIVE SortTargets(_, _, _)
SortTargets(targets, sorted, nodeMap) ==
    IF targets = <<>> THEN sorted
    ELSE SortTargets(Tail(targets), InsertTarget(sorted, Head(targets), nodeMap), nodeMap)

\* walk(id) and targets.forEach(walk): st = [visited, ordered]
RECURSIVE Walk(_, _, _)
RECURSIVE WalkEach(_, _, _)
Walk(id, g, st) ==
    IF id \in st.visited THEN st
    ELSE LET seen == [st EXCEPT !.visited = @ \cup {id}]
         IN  IF id \notin DOMAIN g.nodeMap THEN seen
             ELSE WalkEach(SortTargets(MapGet(g.outgoing, id, <<>>), <<>>, g.nodeMap), g,
                           [seen EXCEPT !.ordered = Append(@, g.nodeMap[id])])

WalkEach(ids, g, st) ==
    IF ids = <<>> THEN st
    ELSE WalkEach(Tail(ids), g, Walk(Head(ids), g, st))

\* starts: the zero-in-degree nodes sorted by canvas position
SequencerStarts(nodes, indegree) ==
    LET IsStart(n) == MapGet(indegree, n.id, 0) = 0
        Canvas(a, b) == PositionBefore(a.position, b.position)
    IN  StableSort(SelectSeq2(nodes, IsStart), Canvas)

SequencerGraph(nodes, edges) ==
    LET deg == SequencerDegrees(edges,
                  [outgoing |-> EmptyMap, indegree |-> [id \in NodeIds(nodes) |-> 0]])
    IN  [nodeMap |-> NodesById(nodes), outgoing |-> deg.outgoing, indegree |-> deg.indegree]

\* the walk from the starts only (without the pass over all nodes)
OrderedFromStarts(nodes, edges) ==
    LET g      == SequencerGraph(nodes, edges)
        starts == SequencerStarts(nodes, g.indegree)
    IN  WalkEach([i \in 1..Len(starts) |-> starts[i].id], g,
                 [visited |-> {}, ordered |-> <<>>])

\* a sequencer without the pass over all nodes: only what the starts reach
SequencerOrderedStartsOnly(nodes, edges) == OrderedFromStarts(nodes, edges).ordered

\* ordered: starts.forEach(walk), then nodes.forEach(walk)
SequencerOrdered(nodes, edges) ==
    WalkEach([i \in 1..Len(nodes) |-> nodes[i].id],
             SequencerGraph(nodes, edges),
             OrderedFromStarts(nodes, edges)).ordered

buildPromptOutput(nodes, edges) ==
    IF nodes = <<>>
    THEN [sequence |-> <<>>, graph |-> [nodes |-> <<>>, edges |-> <<>>]]
    ELSE LET ordered == SequencerOrdered(nodes, edges)
         IN  [sequence |-> [i \in 1..Len(ordered) |->
                              [step    |-> i,
                               id      |-> ordered[i].id,
                               role    |-> ordered[i].data.role,
                               label   |-> ordered[i].data.label,
                               content |-> ordered[i].data.content]],
              graph    |-> ExportGraph(nodes, edges)]

-----------------------------------------------------------------------------
(* SpecSeq: buildPromptOutput on bounded node and edge lists: up to        *)
(* MaxSeqNodes nodes whose ids may repeat, stacked top-down or bottom-up,  *)
(* and up to MaxSeqEdges edges whose ends may be missing ids.              *)

MaxSeqNodes == 3
MaxSeqEdges == 2
SeqIds == {"a", "b", "c"}
SeqEnds == <<"a", "b", "c", "zz">>

\* node i has id ids[i]; the stack runs down the canvas, or up when flipped
SeqNodes(ids, flip) ==
    [i \in 1..Len(ids) |->
        [id |-> ids[i], type |-> "promptNode",
         position |-> [x |-> startX,
                       y |-> startY + gapY * (IF flip THEN Len(ids) - i ELSE i - 1)],
         data |-> SampleData]]

SeqEdge(k) ==
    [id |-> k, source |-> SeqEnds[((k - 1) \div Len(SeqEnds)) + 1],
               target |-> SeqEnds[((k - 1) % Len(SeqEnds)) + 1]]

RECURSIVE SeqEdges(_, _)
SeqEdges(picks, k) ==
    IF k > Len(SeqEnds) * Len(SeqEnds) THEN <<>>
    ELSE (IF k \in picks THEN <<SeqEdge(k)>> ELSE <<>>) \o SeqEdges(picks, k + 1)

SeqInit ==
    /\ NoApp
    /\ fn = "buildPromptOutput"
    /\ \E n \in 0..MaxSeqNodes :
       \E ids \in [1..n -> SeqIds], flip \in BOOLEAN,
          picks \in SubsetsUpTo(1..(Len(SeqEnds) * Len(SeqEnds)), MaxSeqEdges) :
            arg = [nodes |-> SeqNodes(ids, flip), edges |-> SeqEdges(picks, 1)]
    /\ ret = NotApplied

Build ==
    /\ fn = "buildPromptOutput"
    /\ ~ret.done
    /\ ret' = [done |-> TRUE, out |-> buildPromptOutput(arg.nodes, arg.edges)]
    /\ UNCHANGED <<fn, arg, appVars>>

SeqNext == Build

SpecSeq == SeqInit /\ [][SeqNext]_vars

UniqueIds(nodes) ==
    \A i, j \in 1..Len(nodes) : nodes[i].id = nodes[j].id => i = j

\* the number of steps of the sequence that carry this id
StepsOf(sequence, id) == Cardinality({i \in 1..Len(sequence) : sequence[i].id = id})

\* C1 (as stated): whatever the node and edge lists, duplicate ids included,
\* the sequence has nodes.length steps and every node id is in it once.
C1_TotalCoverageAnyInput ==
    (fn = "buildPromptOutput" /\ ret.done) =>
        /\ Len(ret.out.sequence) = Len(arg.nodes)
        /\ \A id \in NodeIds(arg.nodes) : StepsOf(ret.out.sequence, id) = 1

\* C1 (amended): every node id is in the sequence exactly once and no other
\* id is; so the sequence has nodes.length steps when the node ids are
\* pairwise distinct, and one step per distinct id otherwise.
C1_TotalCoverage ==
    (fn = "buildPromptOutput" /\ ret.done) =>
        /\ \A id \in NodeIds(arg.nodes) : StepsOf(ret.out.sequence, id) = 1
        /\ Len(ret.out.sequence) = Cardinality(NodeIds(arg.nodes))
        /\ UniqueIds(arg.nodes) => Len(ret.out.sequence) = Len(arg.nodes)

\* C1 witness: three distinct nodes, two of them on a cycle no start leads
\* to, came out as three steps.
C1_Witness ==
    /\ fn = "buildPromptOutput" /\ ret.done
    /\ Len(arg.nodes) = 3 /\ UniqueIds(arg.nodes)
    /\ Len(OrderedFromStarts(arg.nodes, arg.edges).ordered) = 1
    /\ Len(ret.out.sequence) = 3

-----------------------------------------------------------------------------
(* Graph Validator: validateGeneratedGraph                                 *)
(* A candidate is [shape, nodes, edges]: shape "object" is an object whose *)
(* nodes and edges are arrays, "notObject" a root that is no object,       *)
(* "notArrays" an object without the two arrays.  An id, role or edge end  *)
(* that is no string (a number, null, absent) is NotAString, a label or    *)
(* content that is none is <<NotAString>>.  The result is the              *)
(* rejection reason, a tuple of its message and the id it names, or        *)
(* NoReason for null.                                                      *)

NotAString == "<not a string>"
NoReason == <<>>
validRoles == {"system", "user", "assistant"}

\* for (const node of graph.nodes): the first failure, or NoReason
RECURSIVE ValidateNodes(_, _)
ValidateNodes(nodes, nodeIds) ==
    IF nodes = <<>> THEN NoReason
    ELSE LET node == Head(nodes)
         IN  IF node.id = "" \/ node.id = NotAString
                 THEN <<"Invalid node: every node must have a string id.">>
             ELSE IF node.id \in nodeIds
                 THEN <<"Invalid flow: duplicate node id", node.id>>
             ELSE IF node.role \notin validRoles
                 THEN <<"Invalid node: role must be system, user, or assistant.", node.id>>
             ELSE IF node.label = <<NotAString>>
                 THEN <<"Invalid node: label must be a string.", node.id>>
             ELSE IF node.content = <<NotAString>> \/ Trim(node.content) = <<>>
                 THEN <<"Invalid node: content cannot be empty.", node.id>>
             ELSE ValidateNodes(Tail(nodes), nodeIds \cup {node.id})

\* for (const edge of graph.edges): the first failure, or NoReason
RECURSIVE ValidateEdges(_, _)
ValidateEdges(edges, nodeIds) ==
    IF edges = <<>> THEN NoReason
    ELSE LET edge == Head(edges)
         IN  IF edge.from \in {"", NotAString} \/ edge.to \in {"", NotAString}
                 THEN <<"Invalid edge: each edge must include string from and to.">>
             ELSE IF edge.from \notin nodeIds \/ edge.to \notin nodeIds
                 THEN <<"Invalid edge: references missing node ids.", edge.from, edge.to>>
             ELSE IF edge.from = edge.to
                 THEN <<"Invalid edge: self-loop found", edge.from>>
             ELSE ValidateEdges(Tail(edges), nodeIds)

\* degree, indegree and outgoing after the edge loop
RECURSIVE ValidateDegrees(_, _)
ValidateDegrees(edges, st) ==
    IF edges = <<>> THEN st
    ELSE LET edge == Head(edges)
             d1   == MapPut(st.degree, edge.from, MapGet(st.degree, edge.from, 0) + 1)
         IN  ValidateDegrees(Tail(edges),
                [degree   |-> MapPut(d1, edge.to, MapGet(d1, edge.to, 0) + 1),
                 indegree |-> MapPut(st.indegree, edge.to,
                                     MapGet(st.indegree, edge.to, 0) + 1),
                 outgoing |-> MapPut(st.outgoing, edge.from,
                                     Append(st.outgoing[edge.from], edge.to))])

\* graph.nodes.find((n) => degree.get(n.id) === 0): the orphan's id, as a
\* tuple, or <<>>
FirstOrphan(nodes, degree) ==
    LET IsOrphan(n) == MapGet(degree, n.id, 0) = 0
        orphans == SelectSeq2(nodes, IsOrphan)
    IN  IF orphans = <<>> THEN <<>> ELSE <<orphans[1].id>>

\* for (const target of outgoing.get(id) ?? [])
RECURSIVE ValidateRelax(_, _)
ValidateRelax(targets, st) ==
    IF targets = <<>> THEN st
    ELSE LET target == Head(targets)
             indeg1 == MapPut(st.indegree, target, MapGet(st.indegree, target, 0) - 1)
         IN  ValidateRelax(Tail(targets),
                [st EXCEPT !.indegree = indeg1,
                           !.queue = IF indeg1[target] = 0 THEN Append(@, target) ELSE @])

\* while (queue.length): the number of nodes visited
RECURSIVE ValidateVisited(_, _)
ValidateVisited(st, outgoing) ==
    IF st.queue = <<>> THEN st.visited
    ELSE ValidateVisited(
            ValidateRelax(MapGet(outgoing, Head(st.queue), <<>>),
                          [st EXCEPT !.queue = Tail(@), !.visited = @ + 1]),
            outgoing)

\* a validator without the acyclicity check
ValidateStructureNoCycleCheck(graph) ==
    LET deg    == ValidateDegrees(graph.edges,
                     [degree   |-> [id \in NodeIds(graph.nodes) |-> 0],
                      indegree |-> [id \in NodeIds(graph.nodes) |-> 0],
                      outgoing |-> [id \in NodeIds(graph.nodes) |-> <<>>]])
        orphan == IF Len(graph.nodes) > 1 THEN FirstOrphan(graph.nodes, deg.degree)
                  ELSE <<>>
    IN  IF orphan # <<>>
            THEN <<"Invalid flow: orphan node has no edges.", orphan[1]>>
        ELSE NoReason

\* the structural checks, reached once every node and edge passed its own
ValidateStructure(graph) ==
    LET ids  == NodeIds(graph.nodes)
        deg  == ValidateDegrees(graph.edges,
                    [degree   |-> [id \in ids |-> 0],
                     indegree |-> [id \in ids |-> 0],
                     outgoing |-> [id \in ids |-> <<>>]])
        orphan == IF Len(graph.nodes) > 1 THEN FirstOrphan(graph.nodes, deg.degree)
                  ELSE <<>>
        idSeq  == [i \in 1..Len(graph.nodes) |-> graph.nodes[i].id]
        IsSeed(id) == MapGet(deg.indegree, id, 0) = 0
        visited == ValidateVisited([queue |-> SelectSeq2(idSeq, IsSeed),
                                    indegree |-> deg.indegree, visited |-> 0],
                                   deg.outgoing)
    IN  IF orphan # <<>>
            THEN <<"Invalid flow: orphan node has no edges.", orphan[1]>>
        ELSE IF visited # Len(graph.nodes)
            THEN <<"Invalid flow: graph must be directed and acyclic.">>
        ELSE NoReason

validateGeneratedGraph(graph) ==
    IF graph.shape = "notObject"
        THEN <<"Invalid JSON: root must be an object.">>
    ELSE IF graph.shape = "notArrays"
        THEN <<"Invalid JSON: nodes and edges must be arrays.">>
    ELSE IF graph.nodes = <<>>
        THEN <<"Invalid flow: at least one node is required.">>
    ELSE LET nodeFailure == ValidateNodes(graph.nodes, {})
         IN  IF nodeFailure # NoReason THEN nodeFailure
             ELSE LET edgeFailure == ValidateEdges(graph.edges, NodeIds(graph.nodes))
                  IN  IF edgeFailure # NoReason THEN edgeFailure
                      ELSE ValidateStructure(graph)

-----------------------------------------------------------------------------
(* SpecValidate: validateGeneratedGraph on bounded candidates: up to       *)
(* MaxValNodes nodes a, b, ..., at most one of them defective (an empty    *)
(* id, the id of another node, the role "condition", a label that is no    *)
(* string, a blank content), and up to MaxValEdges edges among the nodes   *)
(* and one missing id, self-loops and cycles included.                     *)

MaxValNodes == 3
MaxValEdges == 3
NodeDefects == {"id", "duplicate", "role", "label", "content"}

GoodNode(n, i) ==
    [id |-> LayoutIds[i], role |-> "user", label |-> <<"User">>, content |-> <<"x">>]

DefectiveNode(n, i, defect) ==
    CASE defect = "id"        -> [GoodNode(n, i) EXCEPT !.id = ""]
      [] defect = "duplicate" -> [GoodNode(n, i) EXCEPT !.id = LayoutIds[(i % n) + 1]]
      [] defect = "role"      -> [GoodNode(n, i) EXCEPT !.role = "condition"]
      [] defect = "label"     -> [GoodNode(n, i) EXCEPT !.label = <<NotAString>>]
      [] defect = "content"   -> [GoodNode(n, i) EXCEPT !.content = <<" ">>]

\* the ends of candidate edges: the n ids and one id of no node
ValEnd(n, k) == IF k <= n THEN LayoutIds[k] ELSE "zz"

ValEdge(n, k) ==
    [from |-> ValEnd(n, ((k - 1) \div (n + 1)) + 1),
     to   |-> ValEnd(n, ((k - 1) % (n + 1)) + 1)]

RECURSIVE ValEdges(_, _, _)
ValEdges(n, picks, k) ==
    IF k > (n + 1) * (n + 1) THEN <<>>
    ELSE (IF k \in picks THEN <<ValEdge(n, k)>> ELSE <<>>) \o ValEdges(n, picks, k + 1)

\* bad = 0: every node is good; otherwise node bad has the defect
Candidate(n, bad, defect, picks) ==
    [shape |-> "object",
     nodes |-> [i \in 1..n |-> IF i = bad THEN DefectiveNode(n, i, defect)
                               ELSE GoodNode(n, i)],
     edges |-> ValEdges(n, picks, 1)]

ValidateInit ==
    /\ NoApp
    /\ fn = "validateGeneratedGraph"
    /\ \E n \in 1..Min(MaxValNodes, Len(LayoutIds)) :
       \E bad \in 0..n, defect \in NodeDefects,
          picks \in SubsetsUpTo(1..((n + 1) * (n + 1)), MaxValEdges) :
            arg = Candidate(n, bad, defect, picks)
    /\ ret = NotApplied

Validate ==
    /\ fn = "validateGeneratedGraph"
    /\ ~ret.done
    /\ ret' = [done |-> TRUE, reason |-> validateGeneratedGraph(arg)]
    /\ UNCHANGED <<fn, arg, appVars>>

ValidateNext == Validate

SpecValidate == ValidateInit /\ [][ValidateNext]_vars

\* the five properties of a canonical graph the claim names
GraphRelation(graph) ==
    {<<graph.edges[i].from, graph.edges[i].to>> : i \in 1..Len(graph.edges)}

GraphAcyclic(graph) ==
    LET rel == GraphRelation(graph)
    IN  \A id \in {p[1] : p \in rel} :
            id \notin ReachWithin(rel, {p[2] : p \in {q \in rel : q[1] = id}},
                                  Cardinality(rel))

GraphNoOrphans(graph) ==
    \A i \in 1..Len(graph.nodes) :
        \E j \in 1..Len(graph.edges) :
            graph.nodes[i].id \in {graph.edges[j].from, graph.edges[j].to}

GraphUniqueIds(graph) == UniqueIds(graph.nodes)

GraphValidRoles(graph) ==
    \A i \in 1..Len(graph.nodes) : graph.nodes[i].role \in {"system", "user", "assistant"}

GraphReferencedEdges(graph) ==
    \A j \in 1..Len(graph.edges) :
        /\ graph.edges[j].from \in NodeIds(graph.nodes)
        /\ graph.edges[j].to \in NodeIds(graph.nodes)

\* what the claim leaves out: ids are non-empty strings, labels strings,
\* contents strings that are not blank
GraphWellFormedFields(graph) ==
    \A i \in 1..Len(graph.nodes) :
        /\ graph.nodes[i].id \notin {"", NotAString}
        /\ graph.nodes[i].label # <<NotAString>>
        /\ graph.nodes[i].content # <<NotAString>>
        /\ \E k \in 1..Len(graph.nodes[i].content) : ~IsSpace(graph.nodes[i].content[k])

GraphFiveProperties(graph) ==
    /\ GraphAcyclic(graph)
    /\ GraphNoOrphans(graph)
    /\ GraphUniqueIds(graph)
    /\ GraphValidRoles(graph)
    /\ GraphReferencedEdges(graph)

\* C2 (as stated): for a candidate with more than one node, the validator
\* returns null exactly when the graph is acyclic, without orphans, with
\* unique ids, valid roles and referenced edges.
C2_ValidIffFiveProperties ==
    (fn = "validateGeneratedGraph" /\ ret.done /\ Len(arg.nodes) > 1) =>
        ((ret.reason = NoReason) <=> GraphFiveProperties(arg))

\* C2 (amended): ... exactly when, in addition, every node has a non-empty
\* string id, a string label and a content that is not blank.
C2_ValidIffAllProperties ==
    (fn = "validateGeneratedGraph" /\ ret.done /\ Len(arg.nodes) > 1) =>
        ((ret.reason = NoReason) <=>
            (GraphFiveProperties(arg) /\ GraphWellFormedFields(arg)))

\* C2 witness: a three-node candidate with a branch was accepted.
C2_Witness ==
    /\ fn = "validateGeneratedGraph" /\ ret.done
    /\ Len(arg.nodes) = 3 /\ Len(arg.edges) = 3
    /\ ret.reason = NoReason

\* C2 witness of the other direction: a three-node candidate with all its
\* fields well formed was rejected for its cycle alone.
C2_WitnessRejected ==
    /\ fn = "validateGeneratedGraph" /\ ret.done
    /\ Len(arg.nodes) = 3 /\ GraphWellFormedFields(arg)
    /\ GraphNoOrphans(arg) /\ GraphUniqueIds(arg) /\ GraphReferencedEdges(arg)
    /\ ret.reason # NoReason

-----------------------------------------------------------------------------
(* SpecOrder: validateGeneratedGraph on candidates with several defects:   *)
(* up to MaxOrderNodes nodes, each of them good or with one defect of its  *)
(* own, and up to MaxOrderEdges edges among the nodes and one missing id.  *)

MaxOrderNodes == 2
MaxOrderEdges == 1

OrderCandidate(n, defects, picks) ==
    [shape |-> "object",
     nodes |-> [i \in 1..n |-> IF defects[i] = "none" THEN GoodNode(n, i)
                               ELSE DefectiveNode(n, i, defects[i])],
     edges |-> ValEdges(n, picks, 1)]

OrderInit ==
    /\ NoApp
    /\ fn = "validateGeneratedGraph"
    /\ \E n \in 1..Min(MaxOrderNodes, Len(LayoutIds)) :
       \E defects \in [1..n -> NodeDefects \cup {"none"}],
          picks \in SubsetsUpTo(1..((n + 1) * (n + 1)), MaxOrderEdges) :
            arg = OrderCandidate(n, defects, picks)
    /\ ret = NotApplied

SpecOrder == OrderInit /\ [][ValidateNext]_vars

\* the number of the check a reason belongs to; 0 for no reason
CheckOfReason(reason) ==
    IF reason = NoReason THEN 0
    ELSE CASE reason[1] = "Invalid JSON: root must be an object." -> 1
           [] reason[1] = "Invalid JSON: nodes and edges must be arrays." -> 1
           [] reason[1] = "Invalid flow: at least one node is required." -> 2
           [] reason[1] = "Invalid node: every node must have a string id." -> 3
           [] reason[1] = "Invalid flow: duplicate node id" -> 3
           [] reason[1] = "Invalid node: role must be system, user, or assistant." -> 4
           [] reason[1] = "Invalid node: label must be a string." -> 5
           [] reason[1] = "Invalid node: content cannot be empty." -> 6
           [] reason[1] = "Invalid edge: each edge must include string from and to." -> 7
           [] reason[1] = "Invalid edge: references missing node ids." -> 7
           [] reason[1] = "Invalid edge: self-loop found" -> 7
           [] reason[1] = "Invalid flow: orphan node has no edges." -> 8
           [] reason[1] = "Invalid flow: graph must be directed and acyclic." -> 9

\* the nine checks, each one stated over the whole graph
CheckHolds(graph, check) ==
    CASE check = 1 -> graph.shape = "object"
      [] check = 2 -> graph.nodes # <<>>
      [] check = 3 -> /\ \A i \in 1..Len(graph.nodes) :
                            graph.nodes[i].id \notin {"", NotAString}
                      /\ \A i, j \in 1..Len(graph.nodes) :
                            i # j => graph.nodes[i].id # graph.nodes[j].id
      [] check = 4 -> \A i \in 1..Len(graph.nodes) : graph.nodes[i].role \in validRoles
      [] check = 5 -> \A i \in 1..Len(graph.nodes) : graph.nodes[i].label # <<NotAString>>
      [] check = 6 -> \A i \in 1..Len(graph.nodes) :
                            /\ graph.nodes[i].content # <<NotAString>>
                            /\ \E k \in 1..Len(graph.nodes[i].content) :
                                    ~IsSpace(graph.nodes[i].content[k])
      [] check = 7 -> \A j \in 1..Len(graph.edges) :
                            /\ graph.edges[j].from \in NodeIds(graph.nodes) \ {""}
                            /\ graph.edges[j].to \in NodeIds(graph.nodes) \ {""}
                            /\ graph.edges[j].from # graph.edges[j].to
      [] check = 8 -> Len(graph.nodes) > 1 => GraphNoOrphans(graph)
      [] check = 9 -> GraphAcyclic(graph)

ViolatedChecks(graph) == {check \in 1..9 : ~CheckHolds(graph, check)}

LowestCheck(checks) == CHOOSE check \in checks : \A other \in checks : check <= other

\* C17 (as stated): the reason returned is one of the lowest-numbered
\* violated check of 1 shape, 2 at least one node, 3 ids of all nodes,
\* 4 roles, 5 labels, 6 contents, 7 edges, 8 orphans, 9 acyclicity, and no
\* reason is returned when no check is violated.
C17_LowestViolatedCheck ==
    (fn = "validateGeneratedGraph" /\ ret.done) =>
        IF ViolatedChecks(arg) = {} THEN ret.reason = NoReason
        ELSE CheckOfReason(ret.reason) = LowestCheck(ViolatedChecks(arg))

-----------------------------------------------------------------------------
(* SpecConnect: validateGeneratedGraph on well-formed candidates of up to  *)
(* MaxConnNodes nodes and MaxConnEdges edges among the nodes and one       *)
(* missing id, so that a candidate may fall into several components.       *)

MaxConnNodes == 4
MaxConnEdges == 2

ConnectInit ==
    /\ NoApp
    /\ fn = "validateGeneratedGraph"
    /\ \E n \in 1..Min(MaxConnNodes, Len(LayoutIds)) :
       \E picks \in SubsetsUpTo(1..((n + 1) * (n + 1)), MaxConnEdges) :
            arg = Candidate(n, 0, "id", picks)
    /\ ret = NotApplied

SpecConnect == ConnectInit /\ [][ValidateNext]_vars

\* every node is joined to the first one by a path of edges, taken in
\* either direction
GraphConnected(graph) ==
    LET rel == GraphRelation(graph) \cup {<<p[2], p[1]>> : p \in GraphRelation(graph)}
    IN  NodeIds(graph.nodes) \subseteq
            ReachWithin(rel, {graph.nodes[1].id}, Len(graph.nodes))

\* C12: validateGeneratedGraph returns a rejection reason for every graph
\* whose nodes do not all belong to one connected component.
C12_DisconnectedRejected ==
    (fn = "validateGeneratedGraph" /\ ret.done /\ ~GraphConnected(arg)) =>
        ret.reason # NoReason

-----------------------------------------------------------------------------
(* The working graphs whose canonical export is written out as JSON text:  *)
(* up to MaxTripNodes nodes a, b, ... and up to MaxTripEdges edges among   *)
(* them.  A node is as a list edit leaves it, as an import of "1. x"       *)
(* leaves it, a palette Condition node, or a node just dropped.            *)

MaxTripNodes == 2
MaxTripEdges == 1

TripData ==
    <<[role |-> "user", label |-> <<"User">>,
       listItems |-> <<[text |-> <<"x">>, level |-> 1]>>,
       content |-> <<"1", " ", "x">>],
      [role |-> "system", label |-> <<>>,
       listItems |-> <<[text |-> <<"x">>, level |-> 1]>>,
       content |-> <<"1", ".", " ", "x">>],
      [role |-> "condition", label |-> <<"Condition">>,
       listItems |-> <<[text |-> <<"x">>, level |-> 1]>>,
       content |-> <<"1", " ", "x">>],
      [role |-> "assistant", label |-> <<"Assistant">>,
       listItems |-> <<[text |-> <<>>, level |-> 1]>>,
       content |-> <<>>]>>

TripNodes(n, pick) ==
    [i \in 1..n |-> [id |-> LayoutIds[i], type |-> "promptNode",
                     position |-> CanvasPoints[i], data |-> TripData[pick[i]]]]

TripGraphs ==
    UNION {{[nodes |-> TripNodes(n, pick), edges |-> PickedEdges(n, picks, 1)] :
                pick \in [1..n -> 1..Len(TripData)], picks \in EdgePicks(n, MaxTripEdges)} :
           n \in 1..Min(MaxTripNodes, Len(CanvasPoints))}

\* the value JSON.parse gives for the JSON text of a canonical graph
JsonValue(graph) == [shape |-> "object", nodes |-> graph.nodes, edges |-> graph.edges]

\* JSON.stringify(graph, null, 2): the one token that is the JSON text, its
\* members in the order id, role, label, content and from, to
JsonStringify(graph) ==
    ToString(<<[i \in 1..Len(graph.nodes) |->
                  <<graph.nodes[i].id, graph.nodes[i].role,
                    graph.nodes[i].label, graph.nodes[i].content>>],
               [i \in 1..Len(graph.edges) |->
                  <<graph.edges[i].from, graph.edges[i].to>>]>>)

ExportDocs == {JsonValue(ExportGraph(w.nodes, w.edges)) : w \in TripGraphs}

-----------------------------------------------------------------------------
(* Text Importer: extractJsonObject, parsePromptTextToGraph                *)
(* Besides digits, ".", " " and the line break, the tokens of an import    *)
(* text are "[", "]", "(", ")", ":", words, the opening and the closing    *)
(* code fence, and JSON documents: a token that is a key of JsonDocs is the *)
(* text, from its first brace to its last, of the JSON value JsonDocs      *)
(* gives for it.                                                           *)

ValidChain ==
    [shape |-> "object",
     nodes |-> <<[id |-> "a", role |-> "system", label |-> <<"System">>,
                  content |-> <<"1", ".", " ", "x">>],
                 [id |-> "b", role |-> "user", label |-> <<"User">>,
                  content |-> <<"y">>]>>,
     edges |-> <<[from |-> "a", to |-> "b"]>>]

CyclicGraph == [ValidChain EXCEPT !.edges = <<[from |-> "a", to |-> "b"],
                                              [from |-> "b", to |-> "a"]>>]

JsonPairs == {<<JsonStringify(d), d>> : d \in ExportDocs}

JsonDocs ==
    [tok \in {"{chain}", "{cycle}", "{other}", "{empty}"}
                \cup {pair[1] : pair \in JsonPairs} |->
        CASE tok = "{chain}" -> ValidChain
          [] tok = "{cycle}" -> CyclicGraph
          [] tok = "{empty}" -> [shape |-> "object", nodes |-> <<>>, edges |-> <<>>]
          [] tok = "{other}" -> [shape |-> "notArrays", nodes |-> <<>>, edges |-> <<>>]
          [] OTHER           -> (CHOOSE pair \in JsonPairs : pair[1] = tok)[2]]

NullJson == [shape |-> "notObject", nodes |-> <<>>, edges |-> <<>>]

IsJsonDoc(tok) == tok \in DOMAIN JsonDocs

\* the index of the first element of s, from i on, that satisfies Test; 0 if none
FirstIndex(s, i, Test(_)) ==
    LET hits == {k \in i..Len(s) : Test(s[k])}
    IN  IF hits = {} THEN 0 ELSE CHOOSE k \in hits : \A h \in hits : k <= h

LastIndex(s, Test(_)) ==
    LET hits == {k \in 1..Len(s) : Test(s[k])}
    IN  IF hits = {} THEN 0 ELSE CHOOSE k \in hits : \A h \in hits : k >= h

\* JSON.parse: a text that is one JSON document gives its value; any other
\* text throws, or gives a value that is no object, and both callers treat
\* the two alike (NullJson)
JsonParse(text) ==
    LET t == Trim(text)
    IN  IF Len(t) = 1 /\ IsJsonDoc(t[1]) THEN JsonDocs[t[1]] ELSE NullJson

extractJsonObject(text) ==
    LET trimmed == Trim(text)
        IsOpen(tok)  == tok = "<fence json>"
        IsClose(tok) == tok = "<fence>"
        open   == FirstIndex(trimmed, 1, IsOpen)
        close  == IF open = 0 THEN 0 ELSE FirstIndex(trimmed, open + 1, IsClose)
        first  == FirstIndex(trimmed, 1, IsJsonDoc)
        last   == LastIndex(trimmed, IsJsonDoc)
    IN  IF trimmed = <<>> THEN NullJson
        ELSE IF JsonParse(trimmed) # NullJson THEN JsonParse(trimmed)
        ELSE IF close # 0 THEN JsonParse(SubSeq(trimmed, open + 1, close - 1))
        ELSE IF first # 0 THEN JsonParse(SubSeq(trimmed, first, last))
        ELSE NullJson

\* the role a word names under the i flag, "" if none
RoleOfWord(w) ==
    CASE w \in {"system", "SYSTEM", "System"}          -> "system"
      [] w \in {"user", "USER", "User"}                -> "user"
      [] w \in {"assistant", "ASSISTANT", "Assistant"} -> "assistant"
      [] w \in {"condition", "CONDITION", "Condition"} -> "condition"
      [] OTHER                                         -> ""

\* item.role[0].toUpperCase() + item.role.slice(1)
Capitalized(role) ==
    CASE role = "system"    -> <<"System">>
      [] role = "user"      -> <<"User">>
      [] role = "assistant" -> <<"Assistant">>
      [] role = "condition" -> <<"Condition">>

ImportIds == <<"import-1", "import-2", "import-3", "import-4", "import-5", "import-6">>

\* edges: nodes.slice(0, -1).map((node, index) => ({from, to}))
ChainEdges(n) ==
    [i \in 1..(IF n = 0 THEN 0 ELSE n - 1) |-> [from |-> ImportIds[i], to |-> ImportIds[i + 1]]]

\* the least element of a non-empty set of integers
Least(S) == CHOOSE x \in S : \A y \in S : x <= y

\* the greatest element of a set of naturals, 0 if there is none
Greatest(S) == IF S = {} THEN 0 ELSE CHOOSE x \in S : \A y \in S : x >= y

NoParent == [ok |-> FALSE, parentNo |-> <<>>, role |-> ""]

\* \s*(SYSTEM|USER|ASSISTANT)\s*$ on what follows the "]" of a trimmed line
ParentRole(parentNo, rest) ==
    IF Len(rest) = 1 /\ RoleOfWord(rest[1]) \in {"system", "user", "assistant"}
    THEN [ok |-> TRUE, parentNo |-> parentNo, role |-> RoleOfWord(rest[1])]
    ELSE NoParent

\* (\d+)\] on what follows the "[": d is the length of its digit run
ParentNumber(line, d) ==
    IF d > 0 /\ Len(line) >= d + 2 /\ line[d + 2] = "]"
    THEN ParentRole(SubSeq(line, 2, d + 1), TrimStart(Drop(line, d + 2)))
    ELSE NoParent

\* trimmed.match(/^\[(\d+)\]\s*(SYSTEM|USER|ASSISTANT)\s*$/i)
ParentMatch(line) ==
    IF line # <<>> /\ Head(line) = "[" THEN ParentNumber(line, DigitRun(Tail(line)))
    ELSE NoParent

NoChild == [ok |-> FALSE, text |-> <<>>]

\* \s+(.+)$ on tail, whose white space run has length sp
ChildText(tail, sp) ==
    IF sp > 0 /\ Len(tail) > sp THEN [ok |-> TRUE, text |-> Trim(Drop(tail, sp))]
    ELSE NoChild

\* \d+\s+(.+)$ on what follows the "." after the parent's number
ChildNumber(after, d) ==
    IF d > 0 THEN ChildText(Drop(after, d), SpaceRun(Drop(after, d))) ELSE NoChild

\* trimmed.match(new RegExp(`^${parentNo}\\.\\d+\\s+(.+)$`))
ChildMatch(line, parentNo) ==
    IF /\ Len(line) > Len(parentNo) + 1
       /\ SubSeq(line, 1, Len(parentNo)) = parentNo
       /\ line[Len(parentNo) + 1] = "."
    THEN ChildNumber(Drop(line, Len(parentNo) + 1), DigitRun(Drop(line, Len(parentNo) + 1)))
    ELSE NoChild

\* a line that is no parent, under the open parent cur: a child of it, or a
\* continuation of its last child, or nothing
ParentChildChild(trimmed, st, cur, child) ==
    IF child.ok THEN
        [st EXCEPT !.current = <<[cur EXCEPT !.children = Append(@, child.text)]>>]
    ELSE IF cur.children # <<>> THEN
        [st EXCEPT !.current =
            <<[cur EXCEPT !.children[Len(cur.children)] = Trim(@ \o <<" ">> \o trimmed)]>>]
    ELSE st

\* the body of for (const line of rawLines): st = [done |-> parents pushed,
\* current |-> the open parent, as a tuple of none or one]
ParentChildLine(trimmed, parent, st) ==
    IF trimmed = <<>> THEN st
    ELSE IF parent.ok THEN
        [done    |-> st.done \o st.current,
         current |-> <<[parentNo |-> parent.parentNo, role |-> parent.role,
                        children |-> <<>>]>>]
    ELSE IF st.current = <<>> THEN st
    ELSE ParentChildChild(trimmed, st, st.current[1],
                          ChildMatch(trimmed, st.current[1].parentNo))

RECURSIVE ParentChildScan(_, _)
ParentChildScan(lines, st) ==
    IF lines = <<>> THEN st.done \o st.current
    ELSE ParentChildScan(Tail(lines),
            ParentChildLine(Trim(Head(lines)), ParentMatch(Trim(Head(lines))), st))

\* item.children.map((child, childIndex) => `${childIndex + 1}. ${child}`).join("\n")
ChildrenContent(children) ==
    IF children = <<>> THEN <<"No", " ", "content">>
    ELSE Join([i \in 1..Len(children) |-> IntToStr(i) \o <<".", " ">> \o children[i]],
              <<NL>>)

NoOutline == [ok |-> FALSE, stepNo |-> <<>>, text |-> <<>>]

\* \s+(.+)$ on rest, whose white space run has length sp
OutlineText(stepNo, rest, sp) ==
    IF sp > 0 /\ Len(rest) > sp
    THEN [ok |-> TRUE, stepNo |-> stepNo, text |-> Trim(Drop(rest, sp))]
    ELSE NoOutline

\* (?:[.)])? on what follows the number
OutlineEnd(stepNo, after) ==
    IF after # <<>> /\ Head(after) \in {".", ")"}
    THEN OutlineText(stepNo, Tail(after), SpaceRun(Tail(after)))
    ELSE OutlineText(stepNo, after, SpaceRun(after))

\* len is the length of the match of (\d+(?:\.\d+)*)
OutlineNumber(line, len) ==
    IF len > 0 THEN OutlineEnd(SubSeq(line, 1, len), Drop(line, len)) ELSE NoOutline

\* line.match(/^(\d+(?:\.\d+)*)(?:[.)])?\s+(.+)$/)
OutlineMatch(line) == OutlineNumber(line, DottedNumber(line).len)

\* outlineNodes.push({role, label, content})
OutlineNode(m, currentSection) ==
    [role    |-> "user",
     label   |-> IF currentSection # <<>>
                 THEN currentSection \o <<" ", "(">> \o m.stepNo \o <<")">>
                 ELSE <<"Step", " ">> \o m.stepNo,
     content |-> IF currentSection # <<>>
                 THEN currentSection \o <<":", " ">> \o m.text
                 ELSE m.text]

RECURSIVE OutlineScan(_, _)

\* the body of for (const line of lines), m being the match of the line
OutlineLine(lines, m, currentSection) ==
    IF ~m.ok THEN OutlineScan(Tail(lines), Head(lines))
    ELSE IF m.text = <<>> THEN OutlineScan(Tail(lines), currentSection)
    ELSE <<OutlineNode(m, currentSection)>> \o OutlineScan(Tail(lines), currentSection)

OutlineScan(lines, currentSection) ==
    IF lines = <<>> THEN <<>>
    ELSE OutlineLine(lines, OutlineMatch(Head(lines)), currentSection)

NoHeader == [ok |-> FALSE, role |-> "", bodyStart |-> 0]

\* \s*\n on tail: the greedy \s* takes the white space up to its last line
\* break, which is at lastNL of tail (0: there is none)
HeaderBreak(n, role, tail, lastNL) ==
    IF lastNL > 0 THEN [ok |-> TRUE, role |-> role, bodyStart |-> n - Len(tail) + lastNL + 1]
    ELSE NoHeader

\* (SYSTEM|USER|ASSISTANT|CONDITION) on the first token of word
HeaderRole(n, word) ==
    IF word # <<>> /\ RoleOfWord(Head(word)) # ""
    THEN HeaderBreak(n, RoleOfWord(Head(word)), Tail(word),
                     Greatest({k \in 1..SpaceRun(Tail(word)) : word[k + 1] = NL}))
    ELSE NoHeader

\* \d+\]\s* on what follows the "[": d is the length of its digit run
HeaderNumber(n, t, d) ==
    IF d > 0 /\ Len(t) > d /\ t[d + 1] = "]" THEN HeaderRole(n, TrimStart(Drop(t, d + 1)))
    ELSE NoHeader

\* the header \[\d+\]\s*(SYSTEM|USER|ASSISTANT|CONDITION)\s*\n at index i of s
HeaderAt(s, i) ==
    IF i <= Len(s) /\ s[i] = "[" THEN HeaderNumber(Len(s), Drop(s, i), DigitRun(Drop(s, i)))
    ELSE NoHeader

\* the lookahead (?=\n\[\d+\]\s*(?:SYSTEM|USER|ASSISTANT|CONDITION)\s*\n|$) at e
IsBodyEnd(s, e) == e = Len(s) + 1 \/ (s[e] = NL /\ HeaderAt(s, e + 1).ok)

\* the lazy body that starts at b ends where the lookahead first holds
BodyEnd(s, b) == Least({e \in b..(Len(s) + 1) : IsBodyEnd(s, e)})

RECURSIVE BlockScan(_, _)

\* blocks.push({role, content}); match = blockRegex.exec(raw)
BlockBody(s, h, e) ==
    <<[role |-> h.role, content |-> Trim(SubSeq(s, h.bodyStart, e - 1))]>> \o BlockScan(s, e)

BlockAt(s, h) == BlockBody(s, h, BodyEnd(s, h.bodyStart))

\* starts: where a header matches at or after lastIndex
BlockFrom(s, starts) == IF starts = {} THEN <<>> ELSE BlockAt(s, HeaderAt(s, Least(starts)))

\* while (match) { ... }, from lastIndex on
BlockScan(s, from) == BlockFrom(s, {i \in from..Len(s) : HeaderAt(s, i).ok})

NoLine == [ok |-> FALSE, role |-> "", content |-> <<>>]

\* :\s*(.+)$ on what follows the role and its white space
LinePatternContent(role, after) ==
    IF after # <<>> /\ Head(after) = ":" /\ TrimStart(Tail(after)) # <<>>
    THEN [ok |-> TRUE, role |-> role, content |-> Trim(Tail(after))]
    ELSE NoLine

\* line.match(/^(system|user|assistant|condition)\s*:\s*(.+)$/i)
LinePatternMatch(line) ==
    IF line # <<>> /\ RoleOfWord(Head(line)) # ""
    THEN LinePatternContent(RoleOfWord(Head(line)), TrimStart(Tail(line)))
    ELSE NoLine

\* .map((line) => line.match(...)).filter(Boolean).map((match) => ({role, content}))
LinePatternNode(m) == IF m.ok THEN <<[role |-> m.role, content |-> m.content]>> ELSE <<>>

RECURSIVE LinePatternScan(_)
LinePatternScan(lines) ==
    IF lines = <<>> THEN <<>>
    ELSE LinePatternNode(LinePatternMatch(Head(lines))) \o LinePatternScan(Tail(lines))

\* return { graph: { nodes, edges } }
ImportedGraph(nodes) ==
    [error |-> <<>>,
     graph |-> [shape |-> "object", nodes |-> nodes, edges |-> ChainEdges(Len(nodes))]]

\* const nodes = parsedNodes.map((item, index) => ({id, role, label, content}))
RoleNodes(parsedNodes) ==
    ImportedGraph([i \in 1..Len(parsedNodes) |->
        [id      |-> ImportIds[i],
         role    |-> parsedNodes[i].role,
         label   |-> Capitalized(parsedNodes[i].role),
         content |-> parsedNodes[i].content]])

\* the line pattern without the fallback to the whole text
ParseLinePatternNoFallback(raw, linePattern) == RoleNodes(linePattern)

\* parsedNodes of the line pattern, and the whole text as one user node if
\* it has none
ParseLinePattern(raw, linePattern) ==
    IF linePattern # <<>> THEN RoleNodes(linePattern)
    ELSE RoleNodes(<<[role |-> "user", content |-> raw]>>)

IsFilled(block) == block.content # <<>>

\* if (!blocks.length) { ... the line pattern ... }
ParseBlocks(raw, lines, blocks) ==
    IF blocks # <<>> THEN RoleNodes(blocks)
    ELSE ParseLinePattern(raw, LinePatternScan(lines))

\* if (outlineNodes.length) { ... }, else the bracketed blocks
ParseOutline(raw, lines, outlineNodes) ==
    IF outlineNodes # <<>> THEN
        ImportedGraph([i \in 1..Len(outlineNodes) |->
            [id      |-> ImportIds[i],
             role    |-> outlineNodes[i].role,
             label   |-> outlineNodes[i].label,
             content |-> outlineNodes[i].content]])
    ELSE ParseBlocks(raw, lines, SelectSeq(BlockScan(raw, 1), IsFilled))

\* const lines = raw.split("\n").map((line) => line.trim()).filter(Boolean)
ParseLines(raw, lines) == ParseOutline(raw, lines, OutlineScan(lines, <<>>))

\* if (parentChildNodes.length) { ... }
ParseParentChild(raw, parentChildNodes) ==
    IF parentChildNodes # <<>> THEN
        ImportedGraph([i \in 1..Len(parentChildNodes) |->
            [id      |-> ImportIds[i],
             role    |-> parentChildNodes[i].role,
             label   |-> Capitalized(parentChildNodes[i].role),
             content |-> ChildrenContent(parentChildNodes[i].children)]])
    ELSE ParseLines(raw, FilterNonEmpty(MapTrim(SplitLines(raw))))

\* if (directJson) return { graph: directJson }
ParseJson(raw, directJson) ==
    IF directJson.shape = "object" THEN [error |-> <<>>, graph |-> directJson]
    ELSE ParseParentChild(raw,
            ParentChildScan(SplitLines(raw), [done |-> <<>>, current |-> <<>>]))

\* if (!raw) return { error: "Prompt text is empty." }
ParseRaw(raw) ==
    IF raw = <<>> THEN [error |-> <<"Prompt text is empty.">>, graph |-> NullJson]
    ELSE ParseJson(raw, extractJsonObject(raw))

\* the result is [error, graph]: error is <<>> where the code returns a graph
parsePromptTextToGraph(text) == ParseRaw(Trim(text))

-----------------------------------------------------------------------------
(* SpecParse: parsePromptTextToGraph on bounded texts: up to               *)
(* MaxImportLines lines joined by line breaks, each line one of            *)
(* ImportLines (blank lines, bracket headers with and without a role the   *)
(* parent pattern knows, numbered children, an outline step, free text, a  *)
(* role line, JSON documents alone and inside other text).                 *)

MaxImportLines == 3

ImportLines ==
    <<<<>>,
      <<" ">>,
      <<"[", "1", "]", " ", "SYSTEM">>,
      <<"[", "2", "]", "user">>,
      <<"[", "3", "]", " ", "CONDITION">>,
      <<"1", ".", "1", " ", "x">>,
      <<"2", ".", "1", " ", "y">>,
      <<"1", ")", " ", "x">>,
      <<"x", " ", "y">>,
      <<"user", ":", " ", "x">>,
      <<"{chain}">>,
      <<"{empty}">>,
      <<"see", " ", "{empty}">>>>

\* the text whose lines are ImportLines[picks[1]], ImportLines[picks[2]], ...
TextOfLines(picks) == Join([i \in 1..Len(picks) |-> ImportLines[picks[i]]], <<NL>>)

ParseInit ==
    /\ NoApp
    /\ fn = "parsePromptTextToGraph"
    /\ \E n \in 1..MaxImportLines :
       \E picks \in [1..n -> 1..Len(ImportLines)] : arg = TextOfLines(picks)
    /\ ret = NotApplied

Parse ==
    /\ fn = "parsePromptTextToGraph"
    /\ ~ret.done
    /\ ret' = [done |-> TRUE, parsed |-> parsePromptTextToGraph(arg)]
    /\ UNCHANGED <<fn, arg, appVars>>

ParseNext == Parse

SpecParse == ParseInit /\ [][ParseNext]_vars

\* a text that is empty or made of white space only
Blank(text) == \A k \in 1..Len(text) : IsSpace(text[k])

\* a text that holds a JSON document
HoldsJson(text) == \E k \in 1..Len(text) : IsJsonDoc(text[k])

\* C11 (as stated): parsePromptTextToGraph returns the error "Prompt text is
\* empty." exactly when the text is blank, and for every other text a graph
\* with at least one node and no error.
C11_ErrorIffBlankElseNodes ==
    (fn = "parsePromptTextToGraph" /\ ret.done) =>
        IF Blank(arg) THEN ret.parsed.error = <<"Prompt text is empty.">>
        ELSE /\ ret.parsed.error = <<>>
             /\ ret.parsed.graph.shape = "object"
             /\ Len(ret.parsed.graph.nodes) >= 1

\* C11 (amended): ... and for every other text a graph and no error; the
\* graph has at least one node unless the text holds a JSON object with
\* nodes and edges arrays, which is returned as it is.
C11_ErrorIffBlank ==
    (fn = "parsePromptTextToGraph" /\ ret.done) =>
        IF Blank(arg) THEN ret.parsed.error = <<"Prompt text is empty.">>
        ELSE /\ ret.parsed.error = <<>>
             /\ ret.parsed.graph.shape = "object"
             /\ (~HoldsJson(arg) => Len(ret.parsed.graph.nodes) >= 1)

\* C11 witness: a text of free lines only, none of a known dialect, was
\* parsed into its single fallback node.
C11_Witness ==
    /\ fn = "parsePromptTextToGraph" /\ ret.done
    /\ arg = <<"x", " ", "y", NL, "x", " ", "y">>
    /\ Len(ret.parsed.graph.nodes) = 1
    /\ ret.parsed.graph.nodes[1].content = arg

\* C24: every graph built from a text that is not blank and holds no JSON
\* document passes validateGeneratedGraph: its ids are import-1..import-N,
\* its roles are system, user or assistant, its contents are not blank and
\* its edges are the chain import-i -> import-(i+1).
C24_DialectGraphsAreValid ==
    (fn = "parsePromptTextToGraph" /\ ret.done /\ ~Blank(arg) /\ ~HoldsJson(arg)) =>
        /\ ret.parsed.error = <<>>
        /\ validateGeneratedGraph(ret.parsed.graph) = NoReason
        /\ \A i \in 1..Len(ret.parsed.graph.nodes) :
                ret.parsed.graph.nodes[i].id = ImportIds[i]
        /\ ret.parsed.graph.edges = ChainEdges(Len(ret.parsed.graph.nodes))

\* the lines of ImportLines that are [n] ROLE headers with ROLE among SYSTEM,
\* USER and ASSISTANT, and the one that is free text
HeaderLines == {ImportLines[3], ImportLines[4]}
FreeLines == {ImportLines[9]}

\* a text of header lines, each followed by one free body line or more
IsRoleBlockText(lines) ==
    /\ lines # <<>> /\ lines[1] \in HeaderLines
    /\ \A i \in 1..Len(lines) : lines[i] \in HeaderLines \cup FreeLines
    /\ \A i \in 1..Len(lines) :
          lines[i] \in HeaderLines => (i < Len(lines) /\ lines[i + 1] \in FreeLines)

HeaderIndexes(lines) == {i \in 1..Len(lines) : lines[i] \in HeaderLines}

\* the body lines of the block whose header is line i, joined as in the text
BlockBodyText(lines, i) ==
    Join(SubSeq(lines, i + 1,
                Least({j \in HeaderIndexes(lines) : j > i} \cup {Len(lines) + 1}) - 1),
         <<NL>>)

\* C15: a text of [n] ROLE headers, each followed by free body lines, gives
\* one node per block, in order, whose content is the body of the block.
C15_RoleBlocksKeepBodies ==
    (fn = "parsePromptTextToGraph" /\ ret.done /\ IsRoleBlockText(SplitLines(arg))) =>
        /\ Len(ret.parsed.graph.nodes) = Cardinality(HeaderIndexes(SplitLines(arg)))
        /\ \A i \in HeaderIndexes(SplitLines(arg)) :
              ret.parsed.graph.nodes[
                  Cardinality({j \in HeaderIndexes(SplitLines(arg)) : j <= i})].content
                  = BlockBodyText(SplitLines(arg), i)

-----------------------------------------------------------------------------
(* SpecTrip: the canonical export of a working graph of TripGraphs,        *)
(* written out as JSON text and imported again: parsed, validated, laid    *)
(* out, and exported once more.                                            *)

TripInit ==
    /\ NoApp
    /\ fn = "roundTrip"
    /\ arg \in TripGraphs
    /\ ret = NotApplied

\* the import of a parsed text: the validator's reason and, when it has none,
\* the export of the graph layoutGraph draws
TripDrawn(exported, reason, laid) ==
    [done |-> TRUE, exported |-> exported, reason |-> reason,
     again |-> buildPromptOutput(laid.rfNodes, laid.rfEdges).graph]

TripValidated(exported, parsed, reason) ==
    IF parsed.error # <<>> \/ reason # NoReason
    THEN [done |-> TRUE, exported |-> exported,
          reason |-> IF parsed.error # <<>> THEN parsed.error ELSE reason,
          again |-> [nodes |-> <<>>, edges |-> <<>>]]
    ELSE TripDrawn(exported, reason, layoutGraph(parsed.graph))

TripParsed(exported, parsed) ==
    TripValidated(exported, parsed, validateGeneratedGraph(parsed.graph))

TripExported(exported) ==
    TripParsed(exported, parsePromptTextToGraph(<<JsonStringify(exported)>>))

ExportImport ==
    /\ fn = "roundTrip"
    /\ ~ret.done
    /\ ret' = TripExported(buildPromptOutput(arg.nodes, arg.edges).graph)
    /\ UNCHANGED <<fn, arg, appVars>>

TripNext == ExportImport

SpecTrip == TripInit /\ [][TripNext]_vars

SeqToSet(seq) == {seq[i] : i \in 1..Len(seq)}

\* C16: when the exported graph passes the validator, importing its JSON
\* text gives a working graph whose export has the same set of nodes (id,
\* role, label, content) and the same list of edges (from, to).
C16_ExportImportRoundTrip ==
    (fn = "roundTrip" /\ ret.done
        /\ validateGeneratedGraph(JsonValue(ExportGraph(arg.nodes, arg.edges))) = NoReason) =>
        /\ ret.reason = NoReason
        /\ Len(ret.again.nodes) = Len(arg.nodes)
        /\ SeqToSet(ret.again.nodes) = SeqToSet(ExportGraph(arg.nodes, arg.edges).nodes)
        /\ ret.again.edges = ExportGraph(arg.nodes, arg.edges).edges

\* C16 witness: a valid graph whose edge runs against the node order, and
\* a content that is not what the list items render to, went through the
\* round trip, which reordered its nodes.
C16_Witness ==
    /\ fn = "roundTrip" /\ ret.done /\ ret.reason = NoReason
    /\ Len(arg.nodes) = 2
    /\ arg.edges # <<>> /\ arg.edges[1].source = "b"
    /\ arg.nodes[1].data.content = <<"1", ".", " ", "x">>
    /\ ret.again.nodes[1].id = "b"

-----------------------------------------------------------------------------
(* FlowDesigner: the working graph and the generation and import dialogs   *)
(* null is Null for selectedNodeId and NoGraph for generatedGraph; an      *)
(* error message is a tuple like the validator's reasons, "" being <<>>.   *)

Null == "<null>"

NoGraph == [shape |-> "null", nodes |-> <<>>, edges |-> <<>>]

initialNodes ==
    <<[id |-> "n1", type |-> "promptNode", position |-> [x |-> 120, y |-> 120],
       data |-> [role  |-> "system",
                 label |-> <<"System">>,
                 listItems |->
                    <<createListItem(<<"You", " ", "are", " ", "a", " ", "careful", " ",
                                       "assistant", ".">>, 1),
                      createListItem(<<"Always", " ", "provide", " ", "structured", " ",
                                       "output", ".">>, 1)>>,
                 content |->
                    <<"1", " ", "You", " ", "are", " ", "a", " ", "careful", " ",
                      "assistant", ".", NL,
                      "2", " ", "Always", " ", "provide", " ", "structured", " ",
                      "output", ".">>]],
      [id |-> "n2", type |-> "promptNode", position |-> [x |-> 420, y |-> 300],
       data |-> [role  |-> "user",
                 label |-> <<"User">>,
                 listItems |->
                    <<createListItem(<<"Summarize", " ", "the", " ", "latest", " ", "ticket",
                                       " ", "updates", ".">>, 1),
                      createListItem(<<"Suggest", " ", "next", " ", "actions", ".">>, 1)>>,
                 content |->
                    <<"1", " ", "Summarize", " ", "the", " ", "latest", " ", "ticket", " ",
                      "updates", ".", NL,
                      "2", " ", "Suggest", " ", "next", " ", "actions", ".">>]]>>

initialEdges == <<[id |-> <<"n1", "n2">>, source |-> "n1", target |-> "n2"]>>

\* the item of localStorage under FLOW_STORAGE_KEY: shape "absent" when there
\* is none, "unparseable" when JSON.parse throws on it, "notArrays" when its
\* nodes or its edges are no arrays, "arrays" otherwise
NothingStored ==
    [shape |-> "absent", nodes |-> <<>>, edges |-> <<>>, selectedNodeId |-> Null]

\* the persistence effect: JSON.stringify({ nodes, edges, selectedNodeId }),
\* as JSON.parse gives it back (every value of the state is a string, a
\* finite number, null, an array or an object of these)
PersistedItem(nodes, edges, selected) ==
    [shape |-> "arrays", nodes |-> nodes, edges |-> edges, selectedNodeId |-> selected]

\* getInitialFlowState that hands the stored selection back as it is
getInitialFlowStateSelectionKept(stored) ==
    IF stored.shape # "arrays"
    THEN [nodes |-> initialNodes, edges |-> initialEdges,
          selectedNodeId |-> IF initialNodes # <<>> THEN initialNodes[1].id ELSE Null]
    ELSE [nodes |-> stored.nodes, edges |-> stored.edges,
          selectedNodeId |-> stored.selectedNodeId]

getInitialFlowState(stored) ==
    IF stored.shape # "arrays"
    THEN [nodes |-> initialNodes, edges |-> initialEdges,
          selectedNodeId |-> IF initialNodes # <<>> THEN initialNodes[1].id ELSE Null]
    ELSE [nodes |-> stored.nodes, edges |-> stored.edges,
          selectedNodeId |->
             IF stored.selectedNodeId \in NodeIds(stored.nodes) THEN stored.selectedNodeId
             ELSE IF stored.nodes # <<>> THEN stored.nodes[1].id
             ELSE Null]

NoRequest == [status |-> "none", text |-> <<>>]

NoEvent == [handler |-> "none", confirm |-> "none"]

\* the state after FlowDesigner is constructed with nothing stored
AppInit ==
    /\ nodesState = getInitialFlowState(NothingStored).nodes
    /\ edgesState = getInitialFlowState(NothingStored).edges
    /\ selectedNodeId = getInitialFlowState(NothingStored).selectedNodeId
    /\ isAiModalOpen = FALSE
    /\ apiKey = <<>>
    /\ generatorPrompt = <<>>
    /\ isGenerating = FALSE
    /\ generationError = <<>>
    /\ generatedGraph = NoGraph
    /\ isImportModalOpen = FALSE
    /\ importPromptText = <<>>
    /\ importError = <<>>
    /\ layoutMode = "vertical"
    /\ request = NoRequest
    /\ event = NoEvent

\* what the user types and what the service answers
KeyTexts == {<<" ">>, <<"sk">>}
PromptTexts == {<<"flow">>}
ResponseTexts == {<<"{chain}">>, <<"{cycle}">>, <<"{other}">>, <<>>}
ImportTexts ==
    {<<>>,
     <<"hello">>,
     <<"{chain}">>,
     <<"{cycle}">>,
     <<"condition", ":", " ", "x">>,
     <<"[", "1", "]", " ", "SYSTEM", NL, "1", ".", "1", " ", "x", NL,
       "[", "2", "]", " ", "USER">>}

\* the step that ran ("other": one that neither asks for a confirmation nor
\* writes the working graph nor ends a generation) and what its window.confirm
\* returned ("none": it asked nothing)
Ran(handler, confirm) == event' = [handler |-> handler, confirm |-> confirm]

\* onClick={() => setIsAiModalOpen(true)}
OpenAiModal ==
    /\ isAiModalOpen' = TRUE
    /\ Ran("other", "none")
    /\ UNCHANGED <<pureVars, graphVars, importVars, layoutMode, apiKey, generatorPrompt,
                   isGenerating, generationError, generatedGraph, request>>

\* the backdrop of the AI modal: onClick={() => setIsAiModalOpen(false)}
CloseAiModal ==
    /\ isAiModalOpen
    /\ isAiModalOpen' = FALSE
    /\ Ran("other", "none")
    /\ UNCHANGED <<pureVars, graphVars, importVars, layoutMode, apiKey, generatorPrompt,
                   isGenerating, generationError, generatedGraph, request>>

\* onChange={(event) => setApiKey(event.target.value)}
SetApiKey(value) ==
    /\ isAiModalOpen
    /\ apiKey' = value
    /\ Ran("other", "none")
    /\ UNCHANGED <<pureVars, graphVars, importVars, layoutMode, isAiModalOpen,
                   generatorPrompt, isGenerating, generationError, generatedGraph, request>>

\* onChange={(event) => setGeneratorPrompt(event.target.value)}
SetGeneratorPrompt(value) ==
    /\ isAiModalOpen
    /\ generatorPrompt' = value
    /\ Ran("other", "none")
    /\ UNCHANGED <<pureVars, graphVars, importVars, layoutMode, isAiModalOpen,
                   apiKey, isGenerating, generationError, generatedGraph, request>>

\* runAiGeneration up to its await; the button is disabled while isGenerating
runAiGeneration ==
    /\ isAiModalOpen
    /\ ~isGenerating
    /\ IF Trim(apiKey) = <<>> THEN
            /\ generationError' = <<"API key is required.">>
            /\ UNCHANGED <<isGenerating, generatedGraph, request>>
       ELSE IF Trim(generatorPrompt) = <<>> THEN
            /\ generationError' = <<"Please describe the flow you want to generate.">>
            /\ UNCHANGED <<isGenerating, generatedGraph, request>>
       ELSE /\ isGenerating' = TRUE
            /\ generationError' = <<>>
            /\ generatedGraph' = NoGraph
            /\ request' = [status |-> "pending", text |-> <<>>]
    /\ Ran("runAiGeneration", "none")
    /\ UNCHANGED <<pureVars, graphVars, importVars, layoutMode, isAiModalOpen,
                   apiKey, generatorPrompt>>

\* the service answers the pending fetch: with an output text, or with a
\* status that is not ok (or the fetch fails)
Respond(ok, text) ==
    /\ request.status = "pending"
    /\ request' = IF ok THEN [status |-> "ok", text |-> text]
                        ELSE [status |-> "failed", text |-> <<>>]
    /\ Ran("other", "none")
    /\ UNCHANGED <<pureVars, graphVars, importVars, layoutMode, isAiModalOpen,
                   apiKey, generatorPrompt, isGenerating, generationError, generatedGraph>>

\* a continuation that keeps whatever the service sent, unvalidated
ReceiveResponseUnvalidated ==
    /\ request.status \in {"ok", "failed"}
    /\ IF request.status = "failed" THEN
            /\ generationError' = <<"OpenAI request failed">>
            /\ UNCHANGED generatedGraph
       ELSE /\ generatedGraph' = extractJsonObject(request.text)
            /\ UNCHANGED generationError
    /\ isGenerating' = FALSE
    /\ request' = NoRequest
    /\ event' = [handler |-> "runAiGeneration", confirm |-> "none"]
    /\ UNCHANGED <<pureVars, graphVars, importVars, layoutMode, isAiModalOpen,
                   apiKey, generatorPrompt>>

\* a continuation that drops the validation error of a rejected answer
KeepGeneratedSilently(parsed, validationError) ==
    IF validationError # NoReason THEN
        UNCHANGED <<generationError, generatedGraph>>
    ELSE
        /\ generatedGraph' = parsed
        /\ UNCHANGED generationError

\* if (validationError) throw new Error(validationError); setGeneratedGraph(parsed)
KeepGenerated(parsed, validationError) ==
    IF validationError # NoReason THEN
        /\ generationError' = validationError
        /\ UNCHANGED generatedGraph
    ELSE
        /\ generatedGraph' = parsed
        /\ UNCHANGED generationError

\* const parsed = extractJsonObject(outputText);
\* const validationError = validateGeneratedGraph(parsed)
ValidateGenerated(parsed) ==
    \E validationError \in {validateGeneratedGraph(parsed)} :
        KeepGenerated(parsed, validationError)

\* runAiGeneration after its await: try, catch, finally
ReceiveResponse ==
    /\ request.status \in {"ok", "failed"}
    /\ IF request.status = "failed" THEN
            /\ generationError' = <<"OpenAI request failed">>
            /\ UNCHANGED generatedGraph
       ELSE \E parsed \in {extractJsonObject(request.text)} : ValidateGenerated(parsed)
    /\ isGenerating' = FALSE
    /\ request' = NoRequest
    /\ Ran("runAiGeneration", "none")
    /\ UNCHANGED <<pureVars, graphVars, importVars, layoutMode, isAiModalOpen,
                   apiKey, generatorPrompt>>

\* rfNodes[0]?.id ?? null
FirstId(rfNodes) == IF rfNodes # <<>> THEN rfNodes[1].id ELSE Null

\* setNodes(rfNodes); setEdges(rfEdges); setSelectedNodeId(rfNodes[0]?.id ?? null)
SetFlow(laid) ==
    /\ nodesState' = laid.rfNodes
    /\ edgesState' = laid.rfEdges
    /\ selectedNodeId' = FirstId(laid.rfNodes)

\* drawGeneratedFlow from its validation on
DrawValidated(validationError) ==
    IF validationError # NoReason THEN
        /\ generationError' = validationError
        /\ UNCHANGED <<graphVars, isAiModalOpen>>
    ELSE
        /\ SetFlow(layoutGraph(generatedGraph))
        /\ isAiModalOpen' = FALSE
        /\ UNCHANGED generationError

\* the button is disabled while generatedGraph is null
drawGeneratedFlow ==
    /\ isAiModalOpen
    /\ generatedGraph # NoGraph
    /\ DrawValidated(validateGeneratedGraph(generatedGraph))
    /\ Ran("drawGeneratedFlow", "none")
    /\ UNCHANGED <<pureVars, importVars, layoutMode, apiKey, generatorPrompt,
                   isGenerating, generatedGraph, request>>

\* onClick={() => { setImportError(""); setIsImportModalOpen(true); }}
OpenImportModal ==
    /\ importError' = <<>>
    /\ isImportModalOpen' = TRUE
    /\ Ran("other", "none")
    /\ UNCHANGED <<pureVars, graphVars, aiVars, layoutMode, importPromptText>>

\* the backdrop of the import modal and its Cancel button
CloseImportModal ==
    /\ isImportModalOpen
    /\ isImportModalOpen' = FALSE
    /\ Ran("other", "none")
    /\ UNCHANGED <<pureVars, graphVars, aiVars, layoutMode, importPromptText, importError>>

\* onChange={(event) => setImportPromptText(event.target.value)}
SetImportPromptText(value) ==
    /\ isImportModalOpen
    /\ importPromptText' = value
    /\ Ran("other", "none")
    /\ UNCHANGED <<pureVars, graphVars, aiVars, layoutMode, isImportModalOpen, importError>>

\* file is "none" (no file chosen), "other" (no markdown), "unreadable", or "markdown"
onImportFileSelected(file, text) ==
    /\ isImportModalOpen
    /\ CASE file = "none"       -> UNCHANGED <<importPromptText, importError>>
         [] file = "other"      -> /\ importError' = <<"Please upload a valid .md file.">>
                                   /\ UNCHANGED importPromptText
         [] file = "unreadable" -> /\ importError' = <<"Failed to read file content.">>
                                   /\ UNCHANGED importPromptText
         [] file = "markdown"   -> /\ importPromptText' = text
                                   /\ importError' = <<>>
    /\ Ran("other", "none")
    /\ UNCHANGED <<pureVars, graphVars, aiVars, layoutMode, isImportModalOpen>>

\* importPromptToFlow from its validation on
ImportValidated(graph, validationError) ==
    IF validationError # NoReason THEN
        /\ importError' = validationError
        /\ UNCHANGED <<graphVars, isImportModalOpen>>
    ELSE
        /\ SetFlow(layoutGraph(graph))
        /\ importError' = <<>>
        /\ isImportModalOpen' = FALSE

\* an import that draws what it parsed and validates it afterwards
ImportDrawnFirst(graph, validationError) ==
    /\ SetFlow(layoutGraph(graph))
    /\ importError' = validationError
    /\ isImportModalOpen' = (validationError # NoReason)

\* importPromptToFlow from the result of its parse on, drawing first
ImportParsedDrawFirst(parsed) ==
    IF parsed.error # <<>> THEN
        /\ importError' = parsed.error
        /\ UNCHANGED <<graphVars, isImportModalOpen>>
    ELSE ImportDrawnFirst(parsed.graph, validateGeneratedGraph(parsed.graph))

importPromptToFlowDrawFirst(shouldContinue) ==
    /\ isImportModalOpen
    /\ IF ~shouldContinue THEN UNCHANGED <<graphVars, importError, isImportModalOpen>>
       ELSE ImportParsedDrawFirst(parsePromptTextToGraph(importPromptText))
    /\ event' = [handler |-> "importPromptToFlow",
                 confirm |-> IF shouldContinue THEN "yes" ELSE "no"]
    /\ UNCHANGED <<pureVars, aiVars, layoutMode, importPromptText>>

\* importPromptToFlow from the result of its parse on
ImportParsed(parsed) ==
    IF parsed.error # <<>> THEN
        /\ importError' = parsed.error
        /\ UNCHANGED <<graphVars, isImportModalOpen>>
    ELSE ImportValidated(parsed.graph, validateGeneratedGraph(parsed.graph))

importPromptToFlow(shouldContinue) ==
    /\ isImportModalOpen
    /\ IF ~shouldContinue THEN UNCHANGED <<graphVars, importError, isImportModalOpen>>
       ELSE ImportParsed(parsePromptTextToGraph(importPromptText))
    /\ Ran("importPromptToFlow", IF shouldContinue THEN "yes" ELSE "no")
    /\ UNCHANGED <<pureVars, aiVars, layoutMode, importPromptText>>

resetAllNodes(shouldReset) ==
    /\ IF ~shouldReset THEN UNCHANGED graphVars
       ELSE /\ nodesState' = <<>>
            /\ edgesState' = <<>>
            /\ selectedNodeId' = Null
    /\ Ran("resetAllNodes", IF shouldReset THEN "yes" ELSE "no")
    /\ UNCHANGED <<pureVars, aiVars, importVars, layoutMode>>

Init ==
    /\ fn = "FlowDesigner" /\ arg = <<>> /\ ret = NotApplied
    /\ AppInit

Next ==
    \/ OpenAiModal
    \/ CloseAiModal
    \/ \E value \in KeyTexts : SetApiKey(value)
    \/ \E value \in PromptTexts : SetGeneratorPrompt(value)
    \/ runAiGeneration
    \/ \E ok \in BOOLEAN, text \in ResponseTexts : Respond(ok, text)
    \/ ReceiveResponse
    \/ drawGeneratedFlow
    \/ OpenImportModal
    \/ CloseImportModal
    \/ \E value \in ImportTexts : SetImportPromptText(value)
    \/ \E file \in {"none", "other", "unreadable"} : onImportFileSelected(file, <<>>)
    \/ \E text \in ImportTexts : onImportFileSelected("markdown", text)
    \/ \E shouldContinue \in BOOLEAN : importPromptToFlow(shouldContinue)
    \/ \E shouldReset \in BOOLEAN : resetAllNodes(shouldReset)

Spec == Init /\ [][Next]_vars

\* C3: every node's content is the rendering of its list items.
C3_ContentIsFormattedList ==
    fn = "FlowDesigner" =>
        \A i \in 1..Len(nodesState) :
            nodesState[i].data.content = formatNumberedList(nodesState[i].data.listItems)

\* the working graph was replaced or cleared by this step
GraphReplaced == nodesState' # nodesState \/ edgesState' # edgesState

\* this step is an import the user confirmed and the importer or the
\* validator rejected
ImportRejected ==
    /\ event'.handler = "importPromptToFlow" /\ event'.confirm = "yes"
    /\ LET parsed == parsePromptTextToGraph(importPromptText)
       IN  parsed.error # <<>> \/ validateGeneratedGraph(parsed.graph) # NoReason

\* this step is a draw of a generated graph the validator rejects
DrawRejected ==
    /\ event'.handler = "drawGeneratedFlow"
    /\ validateGeneratedGraph(generatedGraph) # NoReason

\* C4: a rejected import, and a rejected draw, change nodes, edges and
\* selectedNodeId not at all: the error message is all they set.
C4_RejectionLeavesGraph ==
    [][/\ ImportRejected =>
            /\ importError' # <<>>
            /\ UNCHANGED <<graphVars, aiVars, isImportModalOpen, importPromptText, layoutMode>>
       /\ DrawRejected =>
            /\ generationError' # <<>>
            /\ UNCHANGED <<graphVars, importVars, isAiModalOpen, apiKey, generatorPrompt,
                           isGenerating, generatedGraph, request, layoutMode>>]_vars

\* C4 witness: the import of a cyclic JSON graph was confirmed and rejected
\* while the default graph was on the canvas.
C4_Witness ==
    /\ event = [handler |-> "importPromptToFlow", confirm |-> "yes"]
    /\ importPromptText = <<"{cycle}">>
    /\ importError = validateGeneratedGraph(CyclicGraph)
    /\ importError # <<>>
    /\ nodesState = initialNodes /\ edgesState = initialEdges /\ selectedNodeId = "n1"

\* C5: a step of resetAllNodes, importPromptToFlow or drawGeneratedFlow that
\* changes nodes or edges is one whose window.confirm the user answered yes.
C5_ReplacedOnlyAfterConfirm ==
    [][(/\ event'.handler \in {"resetAllNodes", "importPromptToFlow", "drawGeneratedFlow"}
        /\ GraphReplaced)
       => event'.confirm = "yes"]_vars

\* C6: what drawGeneratedFlow and importPromptToFlow put on the canvas is the
\* layout of a graph the validator accepts, and a response the validator
\* rejects ends with a generationError and with generatedGraph null.
C6_OnlyValidGraphsDrawn ==
    [][/\ (event'.handler = "drawGeneratedFlow" /\ GraphReplaced) =>
            /\ validateGeneratedGraph(generatedGraph) = NoReason
            /\ nodesState' = layoutGraph(generatedGraph).rfNodes
            /\ edgesState' = layoutGraph(generatedGraph).rfEdges
       /\ (event'.handler = "importPromptToFlow" /\ GraphReplaced) =>
            LET parsed == parsePromptTextToGraph(importPromptText)
            IN  /\ parsed.error = <<>>
                /\ validateGeneratedGraph(parsed.graph) = NoReason
                /\ nodesState' = layoutGraph(parsed.graph).rfNodes
                /\ edgesState' = layoutGraph(parsed.graph).rfEdges
       /\ (/\ request.status = "ok" /\ request'.status = "none"
           /\ validateGeneratedGraph(extractJsonObject(request.text)) # NoReason) =>
            /\ generationError' # <<>>
            /\ generatedGraph' = NoGraph]_vars

\* C6 witness: a generated graph was drawn, and a later response, a cyclic
\* graph, ended as a generation error with no generated graph.
C6_Witness ==
    /\ event = [handler |-> "runAiGeneration", confirm |-> "none"]
    /\ request = NoRequest /\ ~isGenerating
    /\ generationError = validateGeneratedGraph(CyclicGraph)
    /\ generationError # <<>>
    /\ generatedGraph = NoGraph
    /\ nodesState = layoutGraph(ValidChain).rfNodes
    /\ edgesState = layoutGraph(ValidChain).rfEdges

\* C7: the response to a request whose modal is closed by the time it
\* arrives installs neither a generatedGraph nor a generationError and
\* changes nothing the user may have edited since.
C7_StaleResponseDisregarded ==
    [][(/\ request.status \in {"ok", "failed"} /\ request'.status = "none"
        /\ ~isAiModalOpen)
       => UNCHANGED <<generatedGraph, generationError, graphVars, importVars,
                      apiKey, generatorPrompt>>]_vars

-----------------------------------------------------------------------------
(* SpecRestore: getInitialFlowState on what localStorage may hold: no      *)
(* item, an item that is no JSON or has no two arrays, and the items the   *)
(* persistence effect writes for working graphs of up to MaxStoredNodes    *)
(* nodes and MaxStoredEdges edges with a selection that is a node, null    *)
(* (after Delete Node or Reset) or the id of no node.                      *)

MaxStoredNodes == 2
MaxStoredEdges == 1

StoredSelections(n) == {LayoutIds[i] : i \in 1..n} \cup {Null, "zz"}

RestoreInit ==
    /\ NoApp
    /\ fn = "getInitialFlowState"
    /\ \/ arg = NothingStored
       \/ arg = [NothingStored EXCEPT !.shape = "unparseable"]
       \/ arg = [NothingStored EXCEPT !.shape = "notArrays"]
       \/ \E n \in 0..Min(MaxStoredNodes, Len(CanvasPoints)) :
          \E place \in Placements(n), picks \in EdgePicks(n, MaxStoredEdges),
             selected \in StoredSelections(n) :
                arg = PersistedItem(CanvasNodes(n, place), PickedEdges(n, picks, 1),
                                    selected)
    /\ ret = NotApplied

Restore ==
    /\ fn = "getInitialFlowState"
    /\ ~ret.done
    /\ ret' = [done |-> TRUE, state |-> getInitialFlowState(arg)]
    /\ UNCHANGED <<fn, arg, appVars>>

RestoreNext == Restore

SpecRestore == RestoreInit /\ [][RestoreNext]_vars

DefaultFlowState ==
    [nodes |-> initialNodes, edges |-> initialEdges, selectedNodeId |-> "n1"]

\* C14 (as stated): the restored state equals the persisted one (nodes,
\* edges and selectedNodeId, a null selection included) whenever the stored
\* item has its two arrays, and is the default two-node graph otherwise.
C14_RestoredEqualsPersisted ==
    (fn = "getInitialFlowState" /\ ret.done) =>
        IF arg.shape = "arrays"
        THEN ret.state = [nodes |-> arg.nodes, edges |-> arg.edges,
                          selectedNodeId |-> arg.selectedNodeId]
        ELSE ret.state = DefaultFlowState

\* C14 (amended): nodes and edges are restored as persisted; the selection
\* is restored as persisted when it is the id of a persisted node, and is
\* otherwise the id of the first node, or null when there is no node.
C14_RestoredGraphAndSelection ==
    (fn = "getInitialFlowState" /\ ret.done) =>
        IF arg.shape = "arrays"
        THEN /\ ret.state.nodes = arg.nodes
             /\ ret.state.edges = arg.edges
             /\ \/ /\ \E i \in 1..Len(arg.nodes) : arg.nodes[i].id = arg.selectedNodeId
                   /\ ret.state.selectedNodeId = arg.selectedNodeId
                \/ /\ \A i \in 1..Len(arg.nodes) : arg.nodes[i].id # arg.selectedNodeId
                   /\ arg.nodes # <<>>
                   /\ ret.state.selectedNodeId = arg.nodes[1].id
                \/ /\ arg.nodes = <<>>
                   /\ ret.state.selectedNodeId = Null
        ELSE ret.state = DefaultFlowState

\* C14 witness: a stored graph of two nodes whose selection is the second
\* node was restored with that selection.
C14_Witness ==
    /\ fn = "getInitialFlowState" /\ ret.done
    /\ arg.shape = "arrays" /\ Len(arg.nodes) = 2 /\ Len(arg.edges) = 1
    /\ arg.selectedNodeId = "b"
    /\ ret.state.selectedNodeId = "b"

-----------------------------------------------------------------------------
(* SpecCanvas: editing the working graph on the canvas (palette drops,     *)
(* node clicks, the role select) together with the text import, on         *)
(* canvases of up to MaxCanvasNodes nodes.                                 *)

MaxCanvasNodes == 3

TEMPLATE_NODES ==
    <<[role |-> "system",    label |-> <<"System">>],
      [role |-> "user",      label |-> <<"User">>],
      [role |-> "assistant", label |-> <<"Assistant">>],
      [role |-> "condition", label |-> <<"Condition">>]>>

\* where instance.screenToFlowPosition may put a dropped node
DropPoints == {[x |-> 100, y |-> 100], [x |-> 420, y |-> 320]}

\* `n-${Date.now()}`: the time of the drop, which no node on the canvas has
DropIds == <<"n-1", "n-2", "n-3", "n-4", "n-5", "n-6">>

DropId(nodes) ==
    DropIds[Least({k \in 1..Len(DropIds) : DropIds[k] \notin NodeIds(nodes)})]

\* onDrop with the canvas initialised (instance set by onInit) and a palette
\* template in the drag data
onDrop(template, position) ==
    /\ Len(nodesState) < Min(MaxCanvasNodes, Len(DropIds))
    /\ nodesState' = Append(nodesState,
            [id       |-> DropId(nodesState),
             type     |-> "promptNode",
             position |-> position,
             data     |-> [role      |-> template.role,
                           label     |-> template.label,
                           listItems |-> <<createListItem(<<>>, 1)>>,
                           content   |-> <<>>]])
    /\ selectedNodeId' = DropId(nodesState)
    /\ Ran("other", "none")
    /\ UNCHANGED <<pureVars, edgesState, aiVars, importVars, layoutMode>>

\* onNodeClick={(_, node) => setSelectedNodeId(node.id)}
onNodeClick(id) ==
    /\ id \in NodeIds(nodesState)
    /\ selectedNodeId' = id
    /\ Ran("other", "none")
    /\ UNCHANGED <<pureVars, nodesState, edgesState, aiVars, importVars, layoutMode>>

\* updateNodeData(nodeId, { role })
updateNodeRole(nodes, nodeId, role) ==
    [i \in 1..Len(nodes) |->
        IF nodes[i].id = nodeId THEN [nodes[i] EXCEPT !.data.role = role] ELSE nodes[i]]

\* the Role select of the selected node
SelectRole(role) ==
    /\ selectedNodeId \in NodeIds(nodesState)
    /\ nodesState' = updateNodeRole(nodesState, selectedNodeId, role)
    /\ Ran("other", "none")
    /\ UNCHANGED <<pureVars, edgesState, selectedNodeId, aiVars, importVars, layoutMode>>

\* onChange={(event) => setLayoutMode(event.target.value)}
SetLayoutMode(mode) ==
    /\ layoutMode' = mode
    /\ Ran("other", "none")
    /\ UNCHANGED <<pureVars, graphVars, aiVars, importVars>>

\* setNodes((current) => autoLayoutNodes(current, edges, layoutMode))
applyLayout ==
    /\ nodesState' = autoLayoutNodes(nodesState, edgesState, layoutMode)
    /\ Ran("applyLayout", "none")
    /\ UNCHANGED <<pureVars, edgesState, selectedNodeId, aiVars, importVars, layoutMode>>

CanvasImportTexts == {<<"{chain}">>, <<"condition", ":", " ", "x">>}

CanvasNext ==
    \/ \E k \in 1..Len(TEMPLATE_NODES), position \in DropPoints :
            onDrop(TEMPLATE_NODES[k], position)
    \/ \E id \in NodeIds(nodesState) : onNodeClick(id)
    \/ \E k \in 1..Len(TEMPLATE_NODES) : SelectRole(TEMPLATE_NODES[k].role)
    \/ OpenImportModal
    \/ \E value \in CanvasImportTexts : SetImportPromptText(value)
    \/ \E shouldContinue \in BOOLEAN : importPromptToFlow(shouldContinue)

SpecCanvas == Init /\ [][CanvasNext]_vars

\* C13: every node of the canonical export has a role among system, user
\* and assistant.
C13_NoConditionInExport ==
    \A i \in 1..Len(buildPromptOutput(nodesState, edgesState).graph.nodes) :
        buildPromptOutput(nodesState, edgesState).graph.nodes[i].role \in validRoles

-----------------------------------------------------------------------------
(* SpecArrange: the layout select and the Apply Layout button on working   *)
(* graphs restored from localStorage: up to MaxArrangeNodes nodes of       *)
(* different roles, laid out top-down or bottom-up, with up to             *)
(* MaxArrangeEdges edges between distinct nodes (cycles included).         *)

MaxArrangeNodes == 3
MaxArrangeEdges == 2

\* node i has the role and the label of palette entry i
ArrangeNodes(n, rev) ==
    [i \in 1..n |->
        [id       |-> LayoutIds[i],
         type     |-> "promptNode",
         position |-> CanvasPoints[IF rev THEN n + 1 - i ELSE i],
         data     |-> [SampleData EXCEPT !.role  = TEMPLATE_NODES[i].role,
                                         !.label = TEMPLATE_NODES[i].label]]]

ArrangeStored(n, rev, picks) ==
    PersistedItem(ArrangeNodes(n, rev), PickedEdges(n, picks, 1), LayoutIds[1])

ArrangeInit ==
    /\ fn = "FlowDesigner" /\ arg = <<>> /\ ret = NotApplied
    /\ \E n \in 1..Min(MaxArrangeNodes, Len(TEMPLATE_NODES)) :
       \E rev \in BOOLEAN, picks \in NoSelfLoopPicks(n, MaxArrangeEdges) :
            /\ nodesState = getInitialFlowState(ArrangeStored(n, rev, picks)).nodes
            /\ edgesState = getInitialFlowState(ArrangeStored(n, rev, picks)).edges
            /\ selectedNodeId =
                    getInitialFlowState(ArrangeStored(n, rev, picks)).selectedNodeId
    /\ isAiModalOpen = FALSE
    /\ apiKey = <<>>
    /\ generatorPrompt = <<>>
    /\ isGenerating = FALSE
    /\ generationError = <<>>
    /\ generatedGraph = NoGraph
    /\ isImportModalOpen = FALSE
    /\ importPromptText = <<>>
    /\ importError = <<>>
    /\ layoutMode = "vertical"
    /\ request = NoRequest
    /\ event = NoEvent

ArrangeNext ==
    \/ \E id \in NodeIds(nodesState) : onNodeClick(id)
    \/ \E mode \in LayoutModes : SetLayoutMode(mode)
    \/ applyLayout

SpecArrange == ArrangeInit /\ [][ArrangeNext]_vars

\* the same nodes in the same array order with identical id, type and data
SameButPosition(before, after) ==
    /\ Len(after) = Len(before)
    /\ \A i \in 1..Len(before) :
        /\ after[i].id = before[i].id
        /\ after[i].type = before[i].type
        /\ after[i].data = before[i].data
        /\ DOMAIN after[i] = DOMAIN before[i]

\* C18: Apply Layout changes only positions: the nodes stay the same nodes in
\* the same array order with identical id, type and data (role, label,
\* content, listItems), and the edges and selectedNodeId stay as they were.
C18_RelayoutChangesOnlyPosition ==
    [][event'.handler = "applyLayout" =>
            /\ SameButPosition(nodesState, nodesState')
            /\ edgesState' = edgesState
            /\ selectedNodeId' = selectedNodeId]_vars

\* C18 witness: Apply Layout has run in horizontal mode on three nodes of
\* three roles with two edges, the second node selected, and moved a node
\* to the third tier.
C18_Witness ==
    /\ event.handler = "applyLayout"
    /\ layoutMode = "horizontal"
    /\ Len(nodesState) = 3 /\ Len(edgesState) = 2
    /\ {nodesState[i].data.role : i \in 1..3} = {"system", "user", "assistant"}
    /\ selectedNodeId = "b"
    /\ \E i \in 1..3 : nodesState[i].position.x = 740

-----------------------------------------------------------------------------
(* SpecPlace: the coordinates given by the import-time layout and by the   *)
(* vertical and the horizontal re-layout to the same graph: up to          *)
(* MaxPlaceNodes nodes anywhere on a small canvas grid and up to           *)
(* MaxPlaceEdges edges between distinct nodes.                             *)

MaxPlaceNodes == 3
MaxPlaceEdges == 2
TierModes == {"vertical", "horizontal"}

PlaceInit ==
    /\ NoApp
    /\ fn = "place"
    /\ \E n \in 1..Min(MaxPlaceNodes, Len(CanvasPoints)) :
       \E place \in Placements(n), picks \in NoSelfLoopPicks(n, MaxPlaceEdges) :
            arg = LayoutInput(n, place, picks, FALSE, FALSE)
    /\ ret = NotApplied

\* the graph drawn by layoutGraph, and the same graph after Apply Layout
Place(mode) ==
    /\ fn = "place"
    /\ ~ret.done
    /\ ret' = [done     |-> TRUE,
               mode     |-> mode,
               imported |-> layoutGraph(ExportGraph(arg.nodes, arg.edges)).rfNodes,
               arranged |-> autoLayoutNodes(arg.nodes, arg.edges, mode)]
    /\ UNCHANGED <<fn, arg, appVars>>

PlaceNext == \E mode \in TierModes : Place(mode)

SpecPlace == PlaceInit /\ [][PlaceNext]_vars

\* the lane of id in the ids of its level, counted from 0
LaneOf(ids, id) == (CHOOSE k \in 1..Len(ids) : ids[k] = id) - 1

\* every node drawn by layoutGraph is at x = 100 + lane * 320,
\* y = 100 + level * 220
PlacedByImport(graph, rfNodes) ==
    \A i \in 1..Len(rfNodes) :
        rfNodes[i].position =
            [x |-> 100 + 320 * LaneOf(LayoutGraphLane(graph, LayoutGraphLevels(graph),
                                        LayoutGraphLevelOf(LayoutGraphLevels(graph),
                                                           rfNodes[i].id)),
                                      rfNodes[i].id),
             y |-> 100 + 220 * LayoutGraphLevelOf(LayoutGraphLevels(graph), rfNodes[i].id)]

\* every node placed by autoLayoutNodes is at 100 + lane * 320,
\* 100 + level * 220 (vertical) or 100 + level * 320, 100 + lane * 220
\* (horizontal)
PlacedByRelayout(nodes, edges, mode, arranged) ==
    \A i \in 1..Len(arranged) :
        LET level == MapGet(AutoLayoutLevels(nodes, edges).level, arranged[i].id, 0)
            lane  == LaneOf(AutoLayoutLane(nodes, AutoLayoutLevels(nodes, edges).level,
                                           level),
                            arranged[i].id)
        IN  arranged[i].position =
                IF mode = "horizontal"
                THEN [x |-> 100 + 320 * level, y |-> 100 + 220 * lane]
                ELSE [x |-> 100 + 320 * lane, y |-> 100 + 220 * level]

\* C19: layoutGraph and the vertical re-layout place the node at lane k of
\* level L at x = 100 + k*320, y = 100 + L*220; the horizontal re-layout
\* places it at x = 100 + L*320, y = 100 + k*220.
C19_TierCoordinates ==
    (fn = "place" /\ ret.done) =>
        /\ PlacedByImport(ExportGraph(arg.nodes, arg.edges), ret.imported)
        /\ PlacedByRelayout(arg.nodes, arg.edges, ret.mode, ret.arranged)

-----------------------------------------------------------------------------
(* SpecWalk: buildPromptOutput against a reference depth-first walk, on    *)
(* up to MaxWalkNodes nodes of different roles anywhere on a small canvas  *)
(* grid (so that nodes share a row or a column), the last of them          *)
(* optionally carrying the id of the first, and up to MaxWalkEdges edges   *)
(* among the node ids and one missing id, self-loops included.             *)

MaxWalkNodes == 3
MaxWalkEdges == 2

WalkNodes(n, place, dup) ==
    [i \in 1..n |->
        [id       |-> IF dup /\ i = n THEN LayoutIds[1] ELSE LayoutIds[i],
         type     |-> "promptNode",
         position |-> CanvasPoints[place[i]],
         data     |-> [SampleData EXCEPT !.role  = TEMPLATE_NODES[i].role,
                                         !.label = TEMPLATE_NODES[i].label]]]

WalkEdge(n, k) ==
    [id |-> k, source |-> ValEnd(n, ((k - 1) \div (n + 1)) + 1),
               target |-> ValEnd(n, ((k - 1) % (n + 1)) + 1)]

RECURSIVE WalkEdges(_, _, _)
WalkEdges(n, picks, k) ==
    IF k > (n + 1) * (n + 1) THEN <<>>
    ELSE (IF k \in picks THEN <<WalkEdge(n, k)>> ELSE <<>>) \o WalkEdges(n, picks, k + 1)

WalkInit ==
    /\ NoApp
    /\ fn = "buildPromptOutput"
    /\ \E n \in 1..Min(MaxWalkNodes, Len(CanvasPoints)) :
       \E place \in Placements(n), dup \in BOOLEAN, rev \in BOOLEAN,
          picks \in SubsetsUpTo(1..((n + 1) * (n + 1)), MaxWalkEdges) :
            arg = [nodes |-> WalkNodes(n, place, dup),
                   edges |-> IF rev THEN Reverse(WalkEdges(n, picks, 1))
                             ELSE WalkEdges(n, picks, 1)]
    /\ ret = NotApplied

SpecWalk == WalkInit /\ [][SeqNext]_vars

\* the reference walk, over node indexes
RefBefore(nodes, i, j) == PositionBefore(nodes[i].position, nodes[j].position)

\* the indexes of S by (y, then x); indexes at the same point in index order
RECURSIVE RefSorted(_, _)
RefSorted(nodes, S) ==
    IF S = {} THEN <<>>
    ELSE LET first == CHOOSE i \in S :
                        \A j \in S \ {i} : RefBefore(nodes, i, j)
                                           \/ (~RefBefore(nodes, j, i) /\ i < j)
         IN  <<first>> \o RefSorted(nodes, S \ {first})

RefRoots(nodes, edges) ==
    {i \in 1..Len(nodes) : \A j \in 1..Len(edges) : edges[j].target # nodes[i].id}

RefNeighbours(nodes, edges, i) ==
    {k \in 1..Len(nodes) :
        \E j \in 1..Len(edges) :
            edges[j].source = nodes[i].id /\ edges[j].target = nodes[k].id}

RECURSIVE RefVisit(_, _, _, _)
RECURSIVE RefVisitEach(_, _, _, _)
RefVisit(nodes, edges, i, order) ==
    IF \E k \in 1..Len(order) : order[k] = i THEN order
    ELSE RefVisitEach(nodes, edges, RefSorted(nodes, RefNeighbours(nodes, edges, i)),
                      Append(order, i))

RefVisitEach(nodes, edges, todo, order) ==
    IF todo = <<>> THEN order
    ELSE RefVisitEach(nodes, edges, Tail(todo), RefVisit(nodes, edges, Head(todo), order))

\* roots first, then every node still unvisited, in original order
RefOrder(nodes, edges) ==
    RefVisitEach(nodes, edges, [i \in 1..Len(nodes) |-> i],
                 RefVisitEach(nodes, edges, RefSorted(nodes, RefRoots(nodes, edges)),
                              <<>>))

RefSequence(nodes, order) ==
    [k \in 1..Len(order) |->
        [step    |-> k,
         id      |-> nodes[order[k]].id,
         role    |-> nodes[order[k]].data.role,
         label   |-> nodes[order[k]].data.label,
         content |-> nodes[order[k]].data.content]]

TargetsAreNodes(nodes, edges) ==
    \A j \in 1..Len(edges) : edges[j].target \in NodeIds(nodes)

-----------------------------------------------------------------------------
(* SpecEdit: the list editor of the nodes (PromptNode) together with node  *)
(* drops, Reset, the text import and the generated flow.  The lists of the *)
(* first MaxEditNodes nodes of the canvas are edited, up to MaxEditItems   *)
(* items each, and nodes are dropped while the canvas has fewer than       *)
(* MaxEditNodes nodes.                                                     *)

MaxEditNodes == 1
MaxEditItems == 2

\* PromptNode: const listItems = normalizeListItems(data.listItems, data.content)
PromptNodeItems(data) == normalizeListItems(data.listItems, data.content)

\* updateNodeList(nodeId, listItems)
updateNodeList(nodes, nodeId, listItems) ==
    [i \in 1..Len(nodes) |->
        IF nodes[i].id = nodeId
        THEN [nodes[i] EXCEPT
                !.data.listItems = normalizeListItems(listItems, <<>>),
                !.data.content   = formatNumberedList(normalizeListItems(listItems, <<>>))]
        ELSE nodes[i]]

\* onListChange={(nextItems) => updateNodeList(props.id, nextItems)}
onListChange(nodeId, nextItems) ==
    /\ nodesState' = updateNodeList(nodesState, nodeId, nextItems)
    /\ Ran("onListChange", "none")
    /\ UNCHANGED <<pureVars, edgesState, selectedNodeId, aiVars, importVars, layoutMode>>

\* the text input of item index
ChangeItemText(i, index, value) ==
    /\ i \in 1..Len(nodesState)
    /\ index \in 1..Len(PromptNodeItems(nodesState[i].data))
    /\ onListChange(nodesState[i].id,
            [PromptNodeItems(nodesState[i].data) EXCEPT ![index].text = value])

\* the Outdent button of item index
OutdentItem(i, index) ==
    /\ i \in 1..Len(nodesState)
    /\ index \in 1..Len(PromptNodeItems(nodesState[i].data))
    /\ onListChange(nodesState[i].id,
            [PromptNodeItems(nodesState[i].data) EXCEPT ![index].level = Max(1, @ - 1)])

\* the Indent button of item index
IndentItem(i, index) ==
    /\ i \in 1..Len(nodesState)
    /\ index \in 1..Len(PromptNodeItems(nodesState[i].data))
    /\ onListChange(nodesState[i].id,
            [PromptNodeItems(nodesState[i].data) EXCEPT ![index].level = Min(3, @ + 1)])

\* listItems.filter((_, i) => i !== index)
WithoutItem(items, index) ==
    [k \in 1..(Len(items) - 1) |-> IF k < index THEN items[k] ELSE items[k + 1]]

\* the Remove button of item index
DeleteItem(i, index) ==
    /\ i \in 1..Len(nodesState)
    /\ index \in 1..Len(PromptNodeItems(nodesState[i].data))
    /\ onListChange(nodesState[i].id,
            IF WithoutItem(PromptNodeItems(nodesState[i].data), index) # <<>>
            THEN WithoutItem(PromptNodeItems(nodesState[i].data), index)
            ELSE <<[text |-> <<>>, level |-> 1]>>)

\* the "+ item" button
AddItem(i) ==
    /\ i \in 1..Len(nodesState)
    /\ Len(PromptNodeItems(nodesState[i].data)) < MaxEditItems
    /\ onListChange(nodesState[i].id,
            Append(PromptNodeItems(nodesState[i].data), [text |-> <<>>, level |-> 1]))

EditTexts == {<<"x">>}
EditImportTexts ==
    {<<"user", ":", " ", "1", ".", "1", ".", "1", ".", "1", " ", "x">>}

\* a drop on a canvas with room for one more node
EditDrop(template, position) ==
    /\ Len(nodesState) < MaxEditNodes
    /\ onDrop(template, position)

EditNext ==
    \/ \E k \in 1..Len(TEMPLATE_NODES) : EditDrop(TEMPLATE_NODES[k], [x |-> 100, y |-> 100])
    \/ \E i \in 1..MaxEditNodes, index \in 1..MaxEditItems, value \in EditTexts :
            ChangeItemText(i, index, value)
    \/ \E i \in 1..MaxEditNodes, index \in 1..MaxEditItems : OutdentItem(i, index)
    \/ \E i \in 1..MaxEditNodes, index \in 1..MaxEditItems : IndentItem(i, index)
    \/ \E i \in 1..MaxEditNodes, index \in 1..MaxEditItems : DeleteItem(i, index)
    \/ \E i \in 1..MaxEditNodes : AddItem(i)
    \/ resetAllNodes(TRUE)
    \/ OpenImportModal
    \/ \E value \in EditImportTexts : SetImportPromptText(value)
    \/ importPromptToFlow(TRUE)
    \/ OpenAiModal
    \/ SetApiKey(<<"sk">>)
    \/ SetGeneratorPrompt(<<"flow">>)
    \/ runAiGeneration
    \/ Respond(TRUE, <<"{chain}">>)
    \/ ReceiveResponse
    \/ drawGeneratedFlow

SpecEdit == Init /\ [][EditNext]_vars

\* C23: in every state of the working graph every node's list holds at
\* least one item and every item's level is an integer in 1..3.
C23_ListNeverEmpty ==
    \A i \in 1..Len(nodesState) :
        /\ Len(nodesState[i].data.listItems) >= 1
        /\ \A k \in 1..Len(nodesState[i].data.listItems) :
                nodesState[i].data.listItems[k].level \in 1..3

\* C23 witness: the only item of an imported node was removed and the node
\* is left with one empty item of level 1.
C23_Witness ==
    /\ event.handler = "onListChange"
    /\ Len(nodesState) = 1
    /\ nodesState[1].id = "import-1"
    /\ nodesState[1].data.listItems = <<[text |-> <<>>, level |-> 1]>>
    /\ nodesState[1].data.content = <<>>

-----------------------------------------------------------------------------
(* SpecGenerate: the AI modal alone: what the user types, Generate, the    *)
(* answers of the service and Draw.  A pending fetch settles and the       *)
(* continuation of runAiGeneration after its await then runs: the two      *)
(* steps are weakly fair.                                                  *)

Settle == \E ok \in BOOLEAN, text \in ResponseTexts : Respond(ok, text)

GenerateNext ==
    \/ OpenAiModal
    \/ CloseAiModal
    \/ \E value \in KeyTexts : SetApiKey(value)
    \/ \E value \in PromptTexts : SetGeneratorPrompt(value)
    \/ runAiGeneration
    \/ Settle
    \/ ReceiveResponse
    \/ drawGeneratedFlow

SpecGenerate ==
    /\ Init
    /\ [][GenerateNext]_vars
    /\ WF_vars(Settle)
    /\ WF_vars(ReceiveResponse)

\* generatedGraph is a graph the validator accepts
GeneratedAccepted(graph) ==
    graph # NoGraph /\ validateGeneratedGraph(graph) = NoReason

\* C25: a request that passed the key and prompt checks eventually completes
\* with isGenerating false again, and at its completion exactly one of
\* these holds: generatedGraph is a graph the validator accepts, or
\* generationError is a message that is not empty.
C25_GenerationCompletes ==
    /\ isGenerating ~> ~isGenerating
    /\ [][(isGenerating /\ ~isGenerating') =>
            (GeneratedAccepted(generatedGraph') <=> generationError' = <<>>)]_vars

\* C25 witness: a request has completed with an accepted graph and no error.
C25_Witness ==
    /\ event.handler = "runAiGeneration"
    /\ ~isGenerating
    /\ request = NoRequest
    /\ generatedGraph = ValidChain
    /\ generationError = <<>>

=============================================================================
